---------------------------- MODULE Spec2Model ----------------------------
(***************************************************************************)
(* A model of the ElevenLabs documentation index: the query handler        *)
(* handleSearchDocs (DuckDB variant with the exact-identifier fast path    *)
(* and the multi-word fuzzy scan) and the OpenAPI ingestion pass           *)
(* parseOpenApiFiles.                                                      *)
(*                                                                         *)
(* Strings are sequences of one-character strings, so that lower-casing,   *)
(* LIKE patterns, whitespace splitting and edit distance are computed and  *)
(* not assumed.  SQL NULL and JavaScript undefined are the markers NULL    *)
(* and Undefined, which are no strings of the model's alphabet.            *)
(***************************************************************************)
EXTENDS Integers, Sequences, FiniteSets, TLC

(***************************************************************************)
(* Bounds of the model.                                                    *)
(***************************************************************************)
MaxApiRows == 2
MaxMdRows == 1
MaxLimit == 2
MaxFiles == 2
MaxSnippetLines == 4
MaxContext == 2

(***************************************************************************)
(* Program constants.                                                      *)
(***************************************************************************)
DefaultLimit == 10
FuzzyThreshold == 2

NULL == <<"<null>">>
Undefined == <<"<undefined>">>

Min(a, b) == IF a <= b THEN a ELSE b

(***************************************************************************)
(* String primitives.                                                      *)
(***************************************************************************)
UpperLetters ==
  <<"A","B","C","D","E","F","G","H","I","J","K","L","M",
    "N","O","P","Q","R","S","T","U","V","W","X","Y","Z">>
LowerLetters ==
  <<"a","b","c","d","e","f","g","h","i","j","k","l","m",
    "n","o","p","q","r","s","t","u","v","w","x","y","z">>
Digits == {"0","1","2","3","4","5","6","7","8","9"}

UpperSet == { UpperLetters[i] : i \in 1..26 }
LowerSet == { LowerLetters[i] : i \in 1..26 }
IsUpper(c) == c \in UpperSet
IsLower(c) == c \in LowerSet
IsSpace(c) == c \in {" ", "\t", "\n", "\r"}
\* [A-Za-z0-9_]
IsWordChar(c) == IsUpper(c) \/ IsLower(c) \/ c \in Digits \/ c = "_"

\* the letter of the other case, by position in the alphabet
LowerOf == [c \in UpperSet |-> LowerLetters[CHOOSE i \in 1..26 : UpperLetters[i] = c]]
UpperOf == [c \in LowerSet |-> UpperLetters[CHOOSE i \in 1..26 : LowerLetters[i] = c]]
LowerChar(c) == IF IsUpper(c) THEN LowerOf[c] ELSE c
UpperChar(c) == IF IsLower(c) THEN UpperOf[c] ELSE c

RECURSIVE LowerFrom(_, _, _)
LowerFrom(s, i, acc) ==
  IF i > Len(s) THEN acc ELSE LowerFrom(s, i + 1, Append(acc, LowerChar(s[i])))

RECURSIVE UpperFrom(_, _, _)
UpperFrom(s, i, acc) ==
  IF i > Len(s) THEN acc ELSE UpperFrom(s, i + 1, Append(acc, UpperChar(s[i])))

\* SQL lower() / String.prototype.toLowerCase on the model's alphabet
Lower(s) == LowerFrom(s, 1, <<>>)
\* String.prototype.toUpperCase
Upper(s) == UpperFrom(s, 1, <<>>)

\* JavaScript truthiness of a string-or-undefined value
Truthy(v) == v # Undefined /\ v # NULL /\ v # <<>>

\* a || b on string-or-undefined values
OrElse(a, b) == IF Truthy(a) THEN a ELSE b

Text(v) == IF Truthy(v) THEN v ELSE <<>>

\* Array.prototype.join(sep)
RECURSIVE JoinFrom(_, _, _, _)
JoinFrom(parts, sep, i, acc) ==
  IF i > Len(parts) THEN acc
  ELSE JoinFrom(parts, sep, i + 1, IF i = 1 THEN parts[i] ELSE acc \o sep \o parts[i])

Join(parts, sep) == JoinFrom(parts, sep, 1, <<>>)

\* Array.prototype.filter(Boolean)
RECURSIVE FilterTruthy(_)
FilterTruthy(parts) ==
  IF parts = <<>> THEN <<>>
  ELSE (IF Truthy(Head(parts)) THEN <<Head(parts)>> ELSE <<>>) \o FilterTruthy(Tail(parts))

\* String.prototype.trim
RECURSIVE TrimLeft(_)
TrimLeft(s) == IF s # <<>> /\ IsSpace(s[1]) THEN TrimLeft(Tail(s)) ELSE s

RECURSIVE TrimRight(_)
TrimRight(s) ==
  IF s # <<>> /\ IsSpace(s[Len(s)]) THEN TrimRight(SubSeq(s, 1, Len(s) - 1)) ELSE s

Trim(s) == TrimRight(TrimLeft(s))

\* SQL LIKE: in the pattern, % matches any run of characters and _ any one.
RECURSIVE LikeFrom(_, _, _, _)
LikeFrom(t, i, p, j) ==
  IF j > Len(p) THEN i > Len(t)
  ELSE IF p[j] = "%" THEN \E k \in i..(Len(t) + 1) : LikeFrom(t, k, p, j + 1)
  ELSE /\ i <= Len(t)
       /\ (p[j] = "_" \/ p[j] = t[i])
       /\ LikeFrom(t, i + 1, p, j + 1)

Like(t, p) == LikeFrom(t, 1, p, 1)

\* `%${query}%`
LikePattern(q) == <<"%">> \o q \o <<"%">>

\* SQL levenshtein(a, b), row by row.
RECURSIVE LevRow(_, _, _, _, _)
LevRow(prev, ch, b, j, cur) ==
  IF j > Len(b) THEN cur
  ELSE LET sub == prev[j] + (IF ch = b[j] THEN 0 ELSE 1)
           del == prev[j + 1] + 1
           ins == cur[j] + 1
           best == Min(sub, Min(del, ins))
       IN IF best >= 0 THEN LevRow(prev, ch, b, j + 1, Append(cur, best)) ELSE cur

RECURSIVE LevFrom(_, _, _, _)
LevFrom(a, b, i, prev) ==
  IF i > Len(a) THEN prev[Len(b) + 1]
  ELSE LET row == LevRow(prev, a[i], b, 1, <<i>>)
       IN IF Len(row) > 0 THEN LevFrom(a, b, i + 1, row) ELSE 0

RECURSIVE LevFirstRow(_, _)
LevFirstRow(n, acc) ==
  IF Len(acc) > n THEN acc ELSE LevFirstRow(n, Append(acc, Len(acc)))

Levenshtein(a, b) == LevFrom(a, b, 1, LevFirstRow(Len(b), <<>>))

\* query.split(/\s+/).map(w => w.trim()).filter(Boolean)
RECURSIVE SplitFrom(_, _, _, _)
SplitFrom(s, i, cur, acc) ==
  IF i > Len(s) THEN (IF cur = <<>> THEN acc ELSE Append(acc, cur))
  ELSE IF IsSpace(s[i])
       THEN SplitFrom(s, i + 1, <<>>, IF cur = <<>> THEN acc ELSE Append(acc, cur))
       ELSE SplitFrom(s, i + 1, Append(cur, s[i]), acc)

SplitWords(s) == SplitFrom(s, 1, <<>>, <<>>)

\* A test that takes a name for an identifier only when it ends in Request,
\* Response or Model.
EndsInSuffix(q, suffix) ==
  /\ Len(q) > Len(suffix)
  /\ SubSeq(q, Len(q) - Len(suffix) + 1, Len(q)) = suffix

IsSuffixedSchemaQuery(q) ==
  /\ Len(q) >= 2
  /\ IsUpper(q[1])
  /\ \A i \in 2..Len(q) : IsWordChar(q[i])
  /\ \/ EndsInSuffix(q, <<"R","e","q","u","e","s","t">>)
     \/ EndsInSuffix(q, <<"R","e","s","p","o","n","s","e">>)
     \/ EndsInSuffix(q, <<"M","o","d","e","l">>)

\* /^[A-Z][A-Za-z0-9_]+(Request|Response|Model)?$/.test(query)
IsExactSchemaQuery(q) ==
  /\ Len(q) >= 2
  /\ IsUpper(q[1])
  /\ \A i \in 2..Len(q) : IsWordChar(q[i])

(***************************************************************************)
(* The texts of the corpus the model draws its records and queries from.   *)
(***************************************************************************)
sVoice == <<"V","o","i","c","e">>
sVoices == <<"V","o","i","c","e","s">>
sSets == <<"s","e","t","s">>
sGetVoices == <<"G","e","t"," ","v","o","i","c","e","s">>
sSpeechSets == <<"S","p","e","e","c","h"," ","s","e","t","s">>
sHasSets == <<"H","a","s"," ","s","e","t","s">>
sAllVoices == <<"A","l","l"," ","V","o","i","c","e","s">>
sTuneSets == <<"T","u","n","e"," ","s","e","t","s">>
sPathVoices == <<"/","v","o","i","c","e","s">>
sPathTts == <<"/","t","t","s">>
sGet == <<"g","e","t">>
sPost == <<"p","o","s","t">>
sOpenApiJson == <<"o","p","e","n","a","p","i",".","j","s","o","n">>
sVoicesMdx == <<"v","o","i","c","e","s",".","m","d","x">>
sJsonVoice == <<"{">> \o sVoice \o <<"}">>
sJsonVoices == <<"{">> \o sVoices \o <<"}">>

qVoiceSets == <<"v","o","i","c","e"," ","s","e","t","s">>
qSetsVoice == <<"s","e","t","s"," ","\t","V","o","i","c","e">>
qBlank == <<" ">>
qOfSets == <<"o","f"," ","s","e","t","s">>

(***************************************************************************)
(* The api_spec artifact.  A row has the columns of apiCreateTableSql; an  *)
(* operation row carries no schemaDefinition and a schema row no apiPath   *)
(* and no method.  filePath is the path's rank in the collation order, the *)
(* only thing ORDER BY reads of it.                                        *)
(***************************************************************************)
ApiRow(fp, ty, ap, me, su, de, co, sd) ==
  [filePath |-> fp, fileName |-> sOpenApiJson, type |-> ty, apiPath |-> ap,
   method |-> me, summary |-> su, description |-> de, content |-> co,
   lineNumber |-> NULL, schemaDefinition |-> sd]

ApiRowPool ==
  { ApiRow(1, "api", sPathVoices, Upper(sGet), sGetVoices, NULL, sGetVoices, NULL),
    ApiRow(1, "api", sPathTts, Upper(sPost), NULL, sSpeechSets, sSpeechSets, NULL),
    ApiRow(1, "schema", NULL, NULL, sVoice, NULL, <<>>, sJsonVoice),
    ApiRow(2, "schema", NULL, NULL, sVoices, sHasSets, sHasSets, sJsonVoices) }

(***************************************************************************)
(* The docs_content artifact: the columns of mdCreateTableSql.  The        *)
(* Markdown parser emits no fullContent, so the column is NULL.  The rows  *)
(* are the paragraphs of one document under its level-1 heading, in        *)
(* document order: order counts them from 0, and the paragraphs stand on   *)
(* every second line below the heading.                                    *)
(***************************************************************************)
MdRow(fp, h1, co, ln, ord) ==
  [filePath |-> fp, fileName |-> sVoicesMdx, heading1 |-> h1, heading2 |-> NULL,
   heading3 |-> NULL, contentType |-> "paragraph", language |-> NULL,
   content |-> co, lineNumber |-> ln, order |-> ord, fullContent |-> NULL]

MdBlockPool == { sAllVoices, sTuneSets }

\* Sequences of distinct elements of S, of length at most n.
RECURSIVE SeqsUpTo(_, _)
SeqsUpTo(S, n) ==
  IF n = 0 THEN {<<>>}
  ELSE LET shorter == SeqsUpTo(S, n - 1)
       IN shorter \cup
          { Append(q, x) : q \in { r \in shorter : Len(r) = n - 1 },
                           x \in S }

Distinct(q) == \A i, j \in 1..Len(q) : i # j => q[i] # q[j]

\* The rows of one file are written together: a file's rows are contiguous.
FileContiguous(q) ==
  \A i, j, k \in 1..Len(q) :
    (i < j /\ j < k /\ q[i].filePath = q[k].filePath) => q[j].filePath = q[i].filePath

\* A file's first record is one of its operations: a schema is recorded
\* after the operation that names it, or after all operations of the file.
OperationsLead(q) ==
  \A i, j \in 1..Len(q) :
    (i < j /\ q[i].filePath = q[j].filePath /\ q[i].type = "schema"
       /\ q[j].type = "api") =>
      \E k \in 1..(i - 1) : q[k].filePath = q[i].filePath /\ q[k].type = "api"

ApiArtifacts ==
  { q \in SeqsUpTo(ApiRowPool, MaxApiRows) :
      Distinct(q) /\ FileContiguous(q) /\ OperationsLead(q) }

MdArtifacts ==
  { [i \in 1..Len(q) |-> MdRow(3, sVoices, q[i], (2 * i) + 1, i - 1)] :
      q \in { r \in SeqsUpTo(MdBlockPool, MaxMdRows) : Distinct(r) } }

(***************************************************************************)
(* Requests.                                                               *)
(***************************************************************************)
QueryPool ==
  { Undefined, <<>>, qBlank, sVoice, sSets, qVoiceSets, qSetsVoice, qOfSets }

SearchDocsArgs ==
  [query : QueryPool, hasLimit : {TRUE}, limit : 0..MaxLimit,
   includeFullContent : BOOLEAN, includeSchemaDefinition : BOOLEAN]
  \cup
  [query : QueryPool, hasLimit : {FALSE}, limit : {0},
   includeFullContent : BOOLEAN, includeSchemaDefinition : BOOLEAN]

\* A check that lets the empty string through.
MissingQueryUndefinedOnly(a) == a.query = Undefined

\* !args.query
MissingQuery(a) == ~Truthy(a.query)

\* const { query, limit = 10 } = args
EffectiveLimit(a) == IF a.hasLimit THEN a.limit ELSE DefaultLimit

(***************************************************************************)
(* The WHERE clauses of handleSearchDocs.  A comparison with a NULL column *)
(* is NULL, and a WHERE that is a disjunction keeps a row exactly when one *)
(* disjunct is TRUE, so a NULL column makes its clause not hold.           *)
(***************************************************************************)
\* lower(col) LIKE lower(?)   and   col ILIKE ?
ILike(v, pattern) == v # NULL /\ Like(Lower(v), Lower(pattern))

\* A comparison that leaves out the distance equal to the threshold.
FuzzyHitBelow(v, word, threshold) ==
  v # NULL /\ Levenshtein(Lower(v), Lower(word)) < threshold

\* levenshtein(lower(col), lower(?)) <= ?
FuzzyHit(v, word, threshold) ==
  v # NULL /\ Levenshtein(Lower(v), Lower(word)) <= threshold

\* WHERE of the exact-identifier tier
ExactWhere(row, q) ==
  \/ (row.summary # NULL /\ row.summary = q)
  \/ (row.fileName # NULL /\ row.fileName = q)
  \/ ILike(row.summary, LikePattern(q))
  \/ ILike(row.fileName, LikePattern(q))
  \/ ILike(row.schemaDefinition, LikePattern(q))
  \/ ILike(row.content, LikePattern(q))

apiFields == <<"content", "summary", "description", "apiPath", "method">>
mdFields == <<"content">>

\* buildWordClauses(fields): for each word, for each field, two clauses, each
\* with the parameters the params array binds to it.
buildWordClauses(fields, words) ==
  [n \in 1..(2 * Len(words) * Len(fields)) |->
     LET pair == (n - 1) \div 2
         w == (pair \div Len(fields)) + 1
         f == (pair % Len(fields)) + 1
     IN [kind |-> IF n % 2 = 1 THEN "ilike" ELSE "levenshtein",
         field |-> fields[f],
         pattern |-> LikePattern(words[w]),
         word |-> words[w],
         threshold |-> FuzzyThreshold]]

ClauseHolds(row, c) ==
  IF c.kind = "ilike" THEN ILike(row[c.field], c.pattern)
  ELSE FuzzyHit(row[c.field], c.word, c.threshold)

\* The clauses joined with AND.
JoinedWhereAnd(row, clauses) ==
  \A n \in 1..Len(clauses) : ClauseHolds(row, clauses[n])

\* WHERE (${clauses.join(" OR ")})
JoinedWhere(row, clauses) ==
  \E n \in 1..Len(clauses) : ClauseHolds(row, clauses[n])

(***************************************************************************)
(* Row selection, ordering and LIMIT.  A result row is named by its        *)
(* artifact and its position in it.  Where the statement gives no order    *)
(* (no ORDER BY, or equal ORDER BY keys) the engine may return the rows in *)
(* any order.                                                              *)
(***************************************************************************)
RowOf(ref, api, md) == IF ref.src = "api" THEN api[ref.idx] ELSE md[ref.idx]

ExactMatches(api, q) ==
  { [src |-> "api", idx |-> i] : i \in { k \in 1..Len(api) : ExactWhere(api[k], q) } }

MultiMatches(api, md, words) ==
  LET apiClauses == buildWordClauses(apiFields, words)
      mdClauses == buildWordClauses(mdFields, words)
  IN { [src |-> "api", idx |-> i] :
         i \in { k \in 1..Len(api) : JoinedWhere(api[k], apiClauses) } }
     \cup
     { [src |-> "markdown", idx |-> i] :
         i \in { k \in 1..Len(md) : JoinedWhere(md[k], mdClauses) } }

RECURSIVE PermsOf(_)
PermsOf(S) ==
  IF S = {} THEN {<<>>}
  ELSE UNION { { <<x>> \o p : p \in PermsOf(S \ {x}) } : x \in S }

\* ORDER BY filePath
OrderedByFilePath(p, api, md) ==
  \A i, j \in 1..Len(p) :
    i < j => RowOf(p[i], api, md).filePath <= RowOf(p[j], api, md).filePath

\* A limit that admits one row too many.
LimitOffByOne(rows, n) == SubSeq(rows, 1, Min(n + 1, Len(rows)))

\* LIMIT ?
Limit(rows, n) == SubSeq(rows, 1, Min(n, Len(rows)))

\* The exact tier's statement: WHERE ... LIMIT ?
ExactScan(api, q, n) ==
  { Limit(p, n) : p \in PermsOf(ExactMatches(api, q)) }

\* The multi-word tier's statement: UNION ALL ... ORDER BY filePath LIMIT ?
MultiScan(api, md, words, n) ==
  { Limit(p, n) :
      p \in { r \in PermsOf(MultiMatches(api, md, words)) :
                OrderedByFilePath(r, api, md) } }

(***************************************************************************)
(* extractSnippet(content, query).  A line number of 0 stands for the      *)
(* undefined lineNumber of a content without a matching line.              *)
(***************************************************************************)
\* content.split(/\r?\n/)
RECURSIVE SplitLinesFrom(_, _, _, _)
SplitLinesFrom(s, i, cur, acc) ==
  IF i > Len(s) THEN Append(acc, cur)
  ELSE IF s[i] = "\n" THEN SplitLinesFrom(s, i + 1, <<>>, Append(acc, cur))
  ELSE IF s[i] = "\r" /\ i < Len(s) /\ s[i + 1] = "\n"
       THEN SplitLinesFrom(s, i + 2, <<>>, Append(acc, cur))
       ELSE SplitLinesFrom(s, i + 1, Append(cur, s[i]), acc)

SplitLines(s) == SplitLinesFrom(s, 1, <<>>, <<>>)

\* String.prototype.includes
Includes(t, w) == \E k \in 0..(Len(t) - Len(w)) : SubSeq(t, k + 1, k + Len(w)) = w

\* lines.slice(0, 3).join('\n')
FirstLines(lines) ==
  LET n == Min(3, Len(lines))
  IN IF n = 1 THEN lines[1]
     ELSE IF n = 2 THEN lines[1] \o <<"\n">> \o lines[2]
     ELSE lines[1] \o <<"\n">> \o lines[2] \o <<"\n">> \o lines[3]

\* the length of the longest prefix of line from position i made of c
RECURSIVE RunOf(_, _, _)
RunOf(line, i, c) ==
  IF i <= Len(line) /\ line[i] = c THEN 1 + RunOf(line, i + 1, c) ELSE 0

RECURSIVE SpacesFrom(_, _)
SpacesFrom(line, i) ==
  IF i <= Len(line) /\ IsSpace(line[i]) THEN 1 + SpacesFrom(line, i + 1) ELSE 0

\* lines[i].match(/^#+\s+(.*)/): the trimmed group, Undefined without a match
MdHeading(line) ==
  LET hashes == RunOf(line, 1, "#")
      spaces == SpacesFrom(line, hashes + 1)
  IN IF hashes >= 1 /\ spaces >= 1
     THEN Trim(SubSeq(line, hashes + spaces + 1, Len(line)))
     ELSE Undefined

\* [a-zA-Z0-9_-]
IsKeyChar(c) == IsWordChar(c) \/ c = "-"

\* lines[i].match(/^([a-zA-Z0-9_-]+):\s*$/): the group, Undefined without a match
YamlKey(line) ==
  IF \E k \in 2..Len(line) :
       /\ line[k] = ":"
       /\ \A j \in 1..(k - 1) : IsKeyChar(line[j])
       /\ \A j \in (k + 1)..Len(line) : IsSpace(line[j])
  THEN LET k == CHOOSE k \in 2..Len(line) : line[k] = ":" /\ \A j \in 1..(k - 1) : line[j] # ":"
       IN SubSeq(line, 1, k - 1)
  ELSE Undefined

\* A scan that starts at the line above line i.
RECURSIVE SectionStrictlyAbove(_, _)
SectionStrictlyAbove(lines, i) ==
  IF i <= 1 THEN Undefined
  ELSE IF MdHeading(lines[i - 1]) # Undefined THEN MdHeading(lines[i - 1])
  ELSE IF YamlKey(lines[i - 1]) # Undefined THEN YamlKey(lines[i - 1])
  ELSE SectionStrictlyAbove(lines, i - 1)

\* the nearest heading or key at or above line i; Undefined when there is none
RECURSIVE SectionAbove(_, _)
SectionAbove(lines, i) ==
  IF i < 1 THEN Undefined
  ELSE IF MdHeading(lines[i]) # Undefined THEN MdHeading(lines[i])
  ELSE IF YamlKey(lines[i]) # Undefined THEN YamlKey(lines[i])
  ELSE SectionAbove(lines, i - 1)

\* the loop for the first line containing the query, letter case ignored;
\* 0 stands for matchLine === -1
RECURSIVE FirstMatchFrom(_, _, _)
FirstMatchFrom(lines, lowerQuery, i) ==
  IF i > Len(lines) THEN 0
  ELSE IF Includes(Lower(lines[i]), lowerQuery) THEN i
  ELSE FirstMatchFrom(lines, lowerQuery, i + 1)

extractSnippet(content, query) ==
  LET lines == SplitLines(content)
      matchLine == FirstMatchFrom(lines, Lower(query), 1)
  IN IF matchLine = 0
     THEN [snippet |-> FirstLines(lines), section |-> Undefined, lineNumber |-> 0]
     ELSE [snippet |-> lines[matchLine],
           section |-> SectionAbove(lines, matchLine),
           lineNumber |-> matchLine]

(***************************************************************************)
(* extractSnippet(content, query, linesContext), the variant of the        *)
(* handlers that read whole files: the snippet is a window of lines around *)
(* the match.  Lines are counted from 1 here, from 0 in the code.          *)
(***************************************************************************)
Max(a, b) == IF a >= b THEN a ELSE b

\* Math.max(0, matchLine - linesContext), as the first line of the window
WindowStart(matchLine, linesContext) == Max(1, matchLine - linesContext)

\* A window that stops one line early.
WindowEndShort(n, matchLine, linesContext) == Min(n, matchLine + linesContext - 1)

\* Math.min(lines.length, matchLine + linesContext + 1), as the last line of
\* the window
WindowEnd(n, matchLine, linesContext) == Min(n, matchLine + linesContext)

sNewline == <<"\n">>

extractSnippetContext(content, query, linesContext) ==
  LET lines == SplitLines(content)
      matchLine == FirstMatchFrom(lines, Lower(query), 1)
  IN IF matchLine = 0
     THEN [snippet |-> FirstLines(lines), section |-> Undefined, lineNumber |-> 0]
     ELSE [snippet |-> Join(SubSeq(lines, WindowStart(matchLine, linesContext),
                                   WindowEnd(Len(lines), matchLine, linesContext)),
                            sNewline),
           section |-> SectionAbove(lines, matchLine),
           lineNumber |-> matchLine]

(***************************************************************************)
(* Result formatting.                                                      *)
(***************************************************************************)
\* The columns the multi-word statement selects of a row.
MultiSelected(ref, api, md) ==
  LET row == RowOf(ref, api, md)
  IN IF ref.src = "api"
     THEN [filePath |-> row.filePath, fileName |-> row.fileName,
           content |-> row.content, lineNumber |-> row.lineNumber,
           sourceType |-> "api", summary |-> row.summary,
           description |-> row.description, apiPath |-> row.apiPath,
           method |-> row.method, heading1 |-> NULL, heading2 |-> NULL,
           heading3 |-> NULL, contentType |-> NULL, language |-> NULL]
     ELSE [filePath |-> row.filePath, fileName |-> row.fileName,
           content |-> row.content, lineNumber |-> row.lineNumber,
           sourceType |-> "markdown", summary |-> NULL, description |-> NULL,
           apiPath |-> NULL, method |-> NULL, heading1 |-> row.heading1,
           heading2 |-> row.heading2, heading3 |-> row.heading3,
           contentType |-> row.contentType, language |-> row.language]

\* row.<key> of a result row object: undefined when the column was not selected
Column(row, key) == IF key \in DOMAIN row THEN row[key] ELSE Undefined

\* `${row.apiPath} (${row.method})`
OperationLabel(row) == row.apiPath \o <<" ", "(">> \o row.method \o <<")">>

\* The fields of a result that both tiers compute alike from the row, the
\* snippet and the section the tier starts from.
ResultOf(ref, row, snippetObj, snippet, section) ==
  [name |-> row.fileName, path |-> row.filePath, src |-> ref.src, idx |-> ref.idx,
   snippet |-> snippet,
   section |-> LET s == OrElse(snippetObj.section, section)
               IN IF Truthy(s) THEN s ELSE Undefined,
   lineNumber |-> IF snippetObj.lineNumber # 0 THEN snippetObj.lineNumber
                  ELSE row.lineNumber]

FormatExact(ref, api, a) ==
  LET row == api[ref.idx]
      section == IF Truthy(row.apiPath) THEN OperationLabel(row) ELSE row.summary
      snippetObj == extractSnippet(row.content, a.query)
  IN ResultOf(ref, row, snippetObj, snippetObj.snippet, section) @@
     [schemaDefinition |->
        IF Truthy(row.schemaDefinition) THEN row.schemaDefinition ELSE Undefined,
      fullContent |-> Undefined]

sModel == <<"M","o","d","e","l",":"," ">>
sArrow == <<" ",">"," ">>

FormatMulti(ref, api, md, a) ==
  LET row == MultiSelected(ref, api, md)
      modelName == IF row.sourceType = "api" THEN OrElse(row.summary, row.fileName)
                   ELSE Undefined
      section == IF row.sourceType = "api"
                 THEN (IF Truthy(row.apiPath) THEN OperationLabel(row) ELSE modelName)
                 ELSE Join(FilterTruthy(<<row.heading1, row.heading2, row.heading3>>),
                           sArrow)
      snippetObj == extractSnippet(row.content, a.query)
      snippet == IF row.sourceType = "api" /\ Truthy(modelName)
                 THEN sModel \o modelName \o <<"\n">> \o snippetObj.snippet
                 ELSE snippetObj.snippet
  IN ResultOf(ref, row, snippetObj, snippet, section) @@
     [schemaDefinition |-> Undefined,
      fullContent |->
        IF /\ a.includeFullContent
           /\ row.sourceType = "markdown"
           /\ Truthy(Column(row, "fullContent"))
        THEN Column(row, "fullContent") ELSE Undefined]

(***************************************************************************)
(* The OpenAPI corpus.  A specification file is what SwaggerParser         *)
(* .dereference yields: paths, each path item a sequence of (key, value)   *)
(* entries in key order, and components.schemas.  A file with              *)
(* malformed = TRUE is one dereference rejects.  A value is an operation   *)
(* object, some other object or string (path-level parameters, summary,    *)
(* servers) or null.                                                       *)
(***************************************************************************)
Schema(ti, de, body) == [title |-> ti, description |-> de, body |-> body]

Operation(id, su, req, res, par) ==
  [kind |-> "operation", operationId |-> id, summary |-> su,
   description |-> Undefined, tags |-> <<>>, requestBody |-> req,
   responses |-> res, parameters |-> par]

\* A path-item member that is no operation: its operation fields are undefined.
Other ==
  [kind |-> "other", operationId |-> Undefined, summary |-> Undefined,
   description |-> Undefined, tags |-> <<>>, requestBody |-> <<>>,
   responses |-> <<>>, parameters |-> <<>>]

Null ==
  [kind |-> "null", operationId |-> Undefined, summary |-> Undefined,
   description |-> Undefined, tags |-> <<>>, requestBody |-> <<>>,
   responses |-> <<>>, parameters |-> <<>>]

Entry(k, v) == [key |-> k, value |-> v]
PathItem(ap, es) == [apiPath |-> ap, entries |-> es]
Component(n, sc) == [name |-> n, schema |-> sc]
SpecFile(fp, bad, ps, cs) ==
  [filePath |-> fp, fileName |-> sOpenApiJson, malformed |-> bad,
   paths |-> ps, schemas |-> cs]

sParameters == <<"p","a","r","a","m","e","t","e","r","s">>
sVoiceList == <<"V","o","i","c","e","L","i","s","t">>
sListVoices == <<"l","i","s","t","V","o","i","c","e","s">>
sSpeak == <<"s","p","e","a","k">>
sObject == <<"o">>
sArray == <<"a">>

VoiceSchema == Schema(sVoice, Undefined, sObject)
VoicesSchema == Schema(sVoices, sHasSets, sArray)
UntitledSchema == Schema(Undefined, Undefined, sArray)

SpecFilePool ==
  { \* one operation, one response schema, the schema also a component
    SpecFile(1, FALSE,
      << PathItem(sPathVoices,
           << Entry(sGet, Operation(sListVoices, sGetVoices, <<>>,
                                    <<VoiceSchema>>, <<>>)) >>) >>,
      << Component(sVoice, VoiceSchema) >>),
    \* one operation that names the schema in its request body and its
    \* response, next to path-level parameters
    SpecFile(2, FALSE,
      << PathItem(sPathTts,
           << Entry(sParameters, Other),
              Entry(sPost, Operation(sSpeak, Undefined, <<VoiceSchema>>,
                                     <<VoiceSchema>>, <<UntitledSchema>>)) >>) >>,
      <<>>),
    \* two operations of one path that name the same schema
    SpecFile(3, FALSE,
      << PathItem(sPathVoices,
           << Entry(sGet, Operation(Undefined, sGetVoices, <<>>,
                                    <<VoiceSchema>>, <<>>)),
              Entry(sPost, Operation(Undefined, Undefined, <<VoiceSchema>>,
                                     <<>>, <<>>)) >>) >>,
      <<>>),
    \* a file dereference rejects
    SpecFile(4, TRUE, <<>>, <<>>),
    \* a component whose name differs from its title
    SpecFile(5, FALSE,
      << PathItem(sPathVoices,
           << Entry(sGet, Operation(Undefined, Undefined, <<>>,
                                    <<VoicesSchema>>, <<>>)) >>) >>,
      << Component(sVoiceList, VoicesSchema) >>),
    \* an operation followed by a null path-item member
    SpecFile(6, FALSE,
      << PathItem(sPathTts,
           << Entry(sPost, Operation(sSpeak, Undefined, <<VoiceSchema>>,
                                     <<>>, <<>>)),
              Entry(sGet, Null) >>) >>,
      << Component(sVoice, VoiceSchema) >>) }

Corpora == { q \in SeqsUpTo(SpecFilePool, MaxFiles) : Distinct(q) }

(***************************************************************************)
(* parseOpenApiFiles.  The run's accumulators are apiData, seenSchemas and *)
(* schemaUsage; acc is a record of the three, with threw set once an       *)
(* exception is on its way to the per-file catch.                          *)
(***************************************************************************)
\* The text of the operation: summary, description, tags; the names and
\* descriptions of parameter objects are not part of the model's operations.
extractOperationText(operation) ==
  Join((IF Truthy(operation.summary) THEN <<operation.summary>> ELSE <<>>)
       \o (IF Truthy(operation.description) THEN <<operation.description>> ELSE <<>>)
       \o operation.tags, <<" ">>)

\* JSON.stringify(schema, replacer, 2) of an acyclic schema
safeStringify(schema) ==
  <<"{">> \o Text(schema.title) \o <<",">> \o Text(schema.description)
    \o <<",">> \o schema.body \o <<"}">>

SchemaKey(schema, schemaName) == OrElse(schemaName, safeStringify(schema))

\* One usage list, extended by one usage.
AppendUsage(usage, key, usedBy) ==
  IF key \in DOMAIN usage
  THEN [usage EXCEPT ![key] = Append(@, usedBy)]
  ELSE usage @@ (key :> <<usedBy>>)

SchemaContent(schema, schemaName) ==
  IF Truthy(schema.title) /\ schema.title # schemaName
  THEN Trim(schema.title \o <<" ">> \o Text(schema.description))
  ELSE Trim(Text(schema.description))

\* usedBy: null, the usage of a sighting without usage context
NoUsedBy == [apiPath |-> NULL, method |-> NULL, operationId |-> Undefined]

addSchemaEntry(acc, schema, schemaName, filePath, fileName, usedBy) ==
  LET key == SchemaKey(schema, schemaName)
  IN IF key \notin acc.seenSchemas
     THEN [acc EXCEPT
             !.seenSchemas = @ \cup {key},
             !.apiData = Append(@,
               [filePath |-> filePath, fileName |-> fileName, type |-> "schema",
                apiPath |-> NULL, method |-> NULL,
                summary |-> OrElse(schema.title, schemaName),
                description |-> OrElse(schema.description, NULL),
                content |-> SchemaContent(schema, schemaName),
                lineNumber |-> NULL,
                schemaDefinition |-> safeStringify(schema),
                usedBy |-> IF usedBy # NoUsedBy THEN <<usedBy>> ELSE <<>>]),
             !.schemaUsage =
               IF usedBy # NoUsedBy
               THEN [k \in DOMAIN @ \cup {key} |-> IF k = key THEN <<usedBy>> ELSE @[k]]
               ELSE @]
     ELSE IF usedBy # NoUsedBy
          THEN [acc EXCEPT !.schemaUsage = AppendUsage(@, key, usedBy)]
          ELSE acc

RECURSIVE AddSchemaEntries(_, _, _, _, _, _)
AddSchemaEntries(acc, schemas, i, filePath, fileName, usedBy) ==
  IF i > Len(schemas) THEN acc
  ELSE LET next == addSchemaEntry(acc, schemas[i], schemas[i].title,
                                  filePath, fileName, usedBy)
       IN IF Len(next.apiData) >= 0
          THEN AddSchemaEntries(next, schemas, i + 1, filePath, fileName, usedBy)
          ELSE acc

\* The schemas of the request body, of the responses and of the parameters,
\* each sighted with this operation as its usage.
extractSchemasFromOperation(acc, operation, filePath, fileName, apiPath, method) ==
  LET usedBy == [apiPath |-> apiPath, method |-> method,
                 operationId |-> OrElse(operation.operationId, NULL)]
  IN AddSchemaEntries(acc,
       operation.requestBody \o operation.responses \o operation.parameters,
       1, filePath, fileName, usedBy)

\* The body of the inner loop: one key of one path item.
VisitEntry(acc, file, apiPath, entry) ==
  IF entry.value.kind = "null"
  THEN [acc EXCEPT !.threw = TRUE]
  ELSE LET operation == entry.value
           pushed == [acc EXCEPT !.apiData = Append(@,
                        [filePath |-> file.filePath, fileName |-> file.fileName,
                         type |-> "api", apiPath |-> apiPath,
                         method |-> Upper(entry.key),
                         summary |-> OrElse(operation.summary, NULL),
                         description |-> OrElse(operation.description, NULL),
                         content |-> extractOperationText(operation),
                         lineNumber |-> NULL])]
       IN extractSchemasFromOperation(pushed, operation, file.filePath,
                                      file.fileName, apiPath, Upper(entry.key))

RECURSIVE VisitEntries(_, _, _, _, _)
VisitEntries(acc, file, apiPath, entries, i) ==
  IF i > Len(entries) \/ acc.threw THEN acc
  ELSE LET next == VisitEntry(acc, file, apiPath, entries[i])
       IN IF Len(next.apiData) >= 0
          THEN VisitEntries(next, file, apiPath, entries, i + 1)
          ELSE acc

RECURSIVE VisitPaths(_, _, _)
VisitPaths(acc, file, i) ==
  IF i > Len(file.paths) \/ acc.threw THEN acc
  ELSE LET next == VisitEntries(acc, file, file.paths[i].apiPath,
                                file.paths[i].entries, 1)
       IN IF Len(next.apiData) >= 0 THEN VisitPaths(next, file, i + 1) ELSE acc

RECURSIVE VisitComponents(_, _, _)
VisitComponents(acc, file, i) ==
  IF i > Len(file.schemas) THEN acc
  ELSE LET next == addSchemaEntry(acc, file.schemas[i].schema, file.schemas[i].name,
                                  file.filePath, file.fileName, NoUsedBy)
       IN IF Len(next.apiData) >= 0 THEN VisitComponents(next, file, i + 1) ELSE acc

\* "After all, update usedBy arrays in apiData for schemas"
BackFill(acc) ==
  [acc EXCEPT !.apiData =
     [n \in 1..Len(@) |->
        IF @[n].type = "schema"
        THEN LET key == OrElse(@[n].summary, @[n].schemaDefinition)
             IN IF key \in DOMAIN acc.schemaUsage
                THEN [@[n] EXCEPT !.usedBy = acc.schemaUsage[key]]
                ELSE @[n]
        ELSE @[n]]]

\* The try block of one file; what it has done stays done when it throws.
ProcessFile(acc, file) ==
  IF file.malformed THEN acc
  ELSE LET visited == VisitPaths(acc, file, 1)
       IN IF visited.threw THEN [visited EXCEPT !.threw = FALSE]
          ELSE BackFill(VisitComponents(visited, file, 1))

(***************************************************************************)
(* The Markdown corpus.  A file is the syntax tree parser.parse yields,    *)
(* given as its nodes in the order visit reaches them (parents before      *)
(* children, siblings in document order), each with its type, its heading  *)
(* depth (0 for other nodes), the text toString gives for it, its          *)
(* language tag and its start line.  A file with unreadable = TRUE is one  *)
(* fs.readFile or parser.parse rejects.                                    *)
(***************************************************************************)
MdNode(ty, dp, tx, la, ln) ==
  [type |-> ty, depth |-> dp, text |-> tx, lang |-> la, line |-> ln]

MdFile(fp, bad, ns) ==
  [filePath |-> fp, fileName |-> sVoicesMdx, unreadable |-> bad, nodes |-> ns]

sOverview == <<"O","v","e","r">>
sSetup == <<" ","S","e","t"," ">>
sDeep == <<"D","e","e","p">>
sNext == <<"N","e","x","t">>
sRun == <<"r","u","n">>
sBash == <<"s","h">>
sBody == <<"b","o","d","y">>

MdFilePool ==
  { \* # Over, ## Set, code, ### Deep, paragraph, ## Next, paragraph
    MdFile(1, FALSE,
      << MdNode("heading", 1, sOverview, Undefined, 1),
         MdNode("heading", 2, sSetup, Undefined, 3),
         MdNode("code", 0, sRun, sBash, 5),
         MdNode("heading", 3, sDeep, Undefined, 9),
         MdNode("paragraph", 0, sBody, Undefined, 11),
         MdNode("heading", 2, sNext, Undefined, 13),
         MdNode("paragraph", 0, sRun, Undefined, 15) >>),
    \* paragraph, ### Deep, code without language, # Over, list with an item
    MdFile(2, FALSE,
      << MdNode("paragraph", 0, sBody, Undefined, 1),
         MdNode("heading", 3, sDeep, Undefined, 3),
         MdNode("code", 0, sRun, Undefined, 5),
         MdNode("heading", 1, sOverview, Undefined, 9),
         MdNode("list", 0, sBody, Undefined, 11),
         MdNode("listItem", 0, sBody, Undefined, 11),
         MdNode("paragraph", 0, sBody, Undefined, 11) >>),
    \* ## Set, a blank code block, #### Next, paragraph, a quoted # Over
    MdFile(3, FALSE,
      << MdNode("heading", 2, sSetup, Undefined, 1),
         MdNode("code", 0, <<" ">>, sBash, 3),
         MdNode("heading", 4, sNext, Undefined, 7),
         MdNode("paragraph", 0, sRun, Undefined, 9),
         MdNode("blockquote", 0, sOverview, Undefined, 11),
         MdNode("heading", 1, sOverview, Undefined, 11),
         MdNode("paragraph", 0, sBody, Undefined, 13) >>),
    \* a file that cannot be read
    MdFile(4, TRUE, <<>>),
    \* a file without headings
    MdFile(5, FALSE, << MdNode("paragraph", 0, sBody, Undefined, 1) >>),
    \* ### Deep, a table cell, an empty level-1 heading, paragraph
    MdFile(6, FALSE,
      << MdNode("heading", 3, sDeep, Undefined, 1),
         MdNode("tableCell", 0, sRun, Undefined, 3),
         MdNode("heading", 1, <<>>, Undefined, 5),
         MdNode("paragraph", 0, sBody, Undefined, 7) >>) }

MdCorpora == { q \in SeqsUpTo(MdFilePool, MaxFiles) : Distinct(q) }

(***************************************************************************)
(* parseMarkdownFiles.  The visit callback works on the per-file walk      *)
(* state: the heading stack, the block counter and the rows pushed.        *)
(***************************************************************************)
contentNodeTypes == {"paragraph", "code", "listItem", "tableCell", "blockquote"}

\* let currentHeadings = { h1: null, h2: null, h3: null }; let blockOrder = 0
StartOfFile(rows) == [h1 |-> NULL, h2 |-> NULL, h3 |-> NULL, blockOrder |-> 0,
                      rows |-> rows]

\* A heading stack on which a level-2 heading leaves level 3 in place.
TrackHeadingNoReset(walk, node) ==
  IF node.type # "heading" THEN walk
  ELSE IF node.depth = 1
       THEN [walk EXCEPT !.h1 = Trim(node.text), !.h2 = NULL, !.h3 = NULL]
       ELSE IF node.depth = 2 THEN [walk EXCEPT !.h2 = Trim(node.text)]
       ELSE IF node.depth = 3 THEN [walk EXCEPT !.h3 = Trim(node.text)]
       ELSE walk

\* if (node.type === 'heading') { ... }
TrackHeading(walk, node) ==
  IF node.type # "heading" THEN walk
  ELSE LET headingText == Trim(node.text)
       IN IF node.depth = 1
          THEN [walk EXCEPT !.h1 = headingText, !.h2 = NULL, !.h3 = NULL]
          ELSE IF node.depth = 2
          THEN [walk EXCEPT !.h2 = headingText, !.h3 = NULL]
          ELSE IF node.depth = 3
          THEN [walk EXCEPT !.h3 = headingText]
          ELSE walk

\* if (contentNodeTypes.includes(node.type) && node.position) { ... }
EmitBlock(walk, file, node) ==
  LET extractedText == Trim(node.text)
  IN IF node.type \notin contentNodeTypes \/ extractedText = <<>> THEN walk
     ELSE [walk EXCEPT
             !.rows = Append(@,
               [filePath |-> file.filePath, fileName |-> file.fileName,
                heading1 |-> walk.h1, heading2 |-> walk.h2, heading3 |-> walk.h3,
                contentType |-> node.type,
                language |-> IF node.type = "code" THEN OrElse(node.lang, NULL)
                             ELSE NULL,
                content |-> extractedText, lineNumber |-> node.line,
                order |-> walk.blockOrder]),
             !.blockOrder = @ + 1]

\* the visit callback on one node
VisitNode(walk, file, node) == EmitBlock(TrackHeading(walk, node), file, node)

\* visit(ast, callback)
RECURSIVE VisitNodes(_, _, _)
VisitNodes(walk, file, i) ==
  IF i > Len(file.nodes) THEN walk
  ELSE LET next == VisitNode(walk, file, file.nodes[i])
       IN IF Len(next.rows) >= 0 THEN VisitNodes(next, file, i + 1) ELSE walk

\* The try block of one Markdown file.
ProcessMdFile(rows, file) ==
  IF file.unreadable THEN rows ELSE VisitNodes(StartOfFile(rows), file, 1).rows

(***************************************************************************)
(* The ingestion run (runETL) and writeDataToParquet.  An artifact, and a  *)
(* table of the run's in-memory database, is absent or holds rows.         *)
(***************************************************************************)
MaxEtlFiles == 1

Absent == [present |-> FALSE, rows |-> <<>>]
Holding(rows) == [present |-> TRUE, rows |-> rows]

TableNames == {"api_spec", "docs_content"}

apiColumns == {"filePath", "fileName", "type", "apiPath", "method", "summary",
               "description", "content", "lineNumber", "schemaDefinition"}
mdColumns == {"filePath", "fileName", "heading1", "heading2", "heading3",
              "contentType", "language", "content", "lineNumber", "order",
              "fullContent"}
ColumnsOf(tableName) == IF tableName = "api_spec" THEN apiColumns ELSE mdColumns

\* A run whose dedup set and usage map are those the last run left behind.
StartOfRunKeepsSeen(left) == [left EXCEPT !.apiData = <<>>, !.threw = FALSE]

\* const apiData = []; const seenSchemas = new Set(); const schemaUsage = new Map()
StartOfRun(left) ==
  [apiData |-> <<>>, seenSchemas |-> {}, schemaUsage |-> <<>>, threw |-> FALSE]

RECURSIVE ParseFilesFrom(_, _, _)
ParseFilesFrom(acc, files, i) ==
  IF i > Len(files) THEN acc
  ELSE LET next == ProcessFile(acc, files[i])
       IN IF Len(next.apiData) >= 0 THEN ParseFilesFrom(next, files, i + 1) ELSE acc

\* parseOpenApiFiles(submodulePath): the accumulators when the loop is over
parseOpenApiFiles(left, files) == ParseFilesFrom(StartOfRun(left), files, 1)

RECURSIVE ParseMdFilesFrom(_, _, _)
ParseMdFilesFrom(rows, files, i) ==
  IF i > Len(files) THEN rows
  ELSE LET next == ProcessMdFile(rows, files[i])
       IN IF Len(next) >= 0 THEN ParseMdFilesFrom(next, files, i + 1) ELSE rows

\* parseMarkdownFiles(submodulePath)
parseMarkdownFiles(files) == ParseMdFilesFrom(<<>>, files, 1)

\* filteredRowData and its VALUES list: the listed columns only, NULL for a
\* key the record lacks (the parsers leave no column undefined: a missing
\* value is null already).
InsertedRow(row, columns) ==
  [col \in columns |-> IF col \in DOMAIN row THEN row[col] ELSE NULL]

\* A loop that gives up at the first INSERT that fails.
RECURSIVE InsertedRowsUntilFailure(_, _, _, _)
InsertedRowsUntilFailure(data, columns, rejected, i) ==
  IF i > Len(data) \/ i \in rejected THEN <<>>
  ELSE << InsertedRow(data[i], columns) >>
       \o InsertedRowsUntilFailure(data, columns, rejected, i + 1)

\* The insert loop: a row whose INSERT fails is logged and left out.
RECURSIVE InsertedRows(_, _, _, _)
InsertedRows(data, columns, rejected, i) ==
  IF i > Len(data) THEN <<>>
  ELSE (IF i \in rejected THEN <<>> ELSE << InsertedRow(data[i], columns) >>)
       \o InsertedRows(data, columns, rejected, i + 1)

\* The rows the loop issues an INSERT for: the catch of a failed INSERT logs
\* and goes on with the next row.
RECURSIVE InsertAttempts(_, _, _)
InsertAttempts(data, rejected, i) ==
  IF i > Len(data) THEN <<>>
  ELSE <<i>> \o InsertAttempts(data, rejected, i + 1)

\* insertedCount++ after each INSERT that succeeded, as reported by
\* "Inserted ${insertedCount}/${data.length} rows".
RECURSIVE InsertedCount(_, _, _)
InsertedCount(data, rejected, i) ==
  IF i > Len(data) THEN 0
  ELSE (IF i \in rejected THEN 0 ELSE 1) + InsertedCount(data, rejected, i + 1)

\* The inputs of one run: the files of the corpus, the statement of the run
\* the database fails on, and the positions of the rows whose INSERT it
\* rejects.
NoFault == <<"none", "none">>
EtlFaults == {NoFault} \cup ({"create", "export"} \X TableNames)
EtlApiPool == { f \in SpecFilePool : f.filePath \in {1, 4} }
EtlMdPool == { f \in MdFilePool : f.filePath \in {4, 5} }
EtlInputs ==
  [api : { q \in SeqsUpTo(EtlApiPool, MaxEtlFiles) : Distinct(q) },
   md : { q \in SeqsUpTo(EtlMdPool, MaxEtlFiles) : Distinct(q) },
   fault : EtlFaults,
   rejected : { {}, {1} }]

(***************************************************************************)
(* State: the two artifacts, the arguments of the last call of             *)
(* handleSearchDocs and its outcome.  resp.issued lists the statements the *)
(* call handed to service.executeQuery.                                    *)
(***************************************************************************)
VARIABLES apiSpec, docsContent, args, resp

searchVars == <<apiSpec, docsContent, args, resp>>

(***************************************************************************)
(* State of one run of parseOpenApiFiles: the files findFiles returned,    *)
(* the index of the next file of the loop, the three accumulators of the   *)
(* run and where the run stands.                                           *)
(***************************************************************************)
VARIABLES corpus, fileIdx, apiData, seenSchemas, schemaUsage, parsePc

parseVars == <<corpus, fileIdx, apiData, seenSchemas, schemaUsage, parsePc>>

(***************************************************************************)
(* State of one run of parseMarkdownFiles: the files findFiles returned,   *)
(* the index of the next file of the loop, the rows collected so far and   *)
(* where the run stands.                                                   *)
(***************************************************************************)
VARIABLES mdCorpus, mdIdx, markdownData, mdPc

mdVars == <<mdCorpus, mdIdx, markdownData, mdPc>>

(***************************************************************************)
(* One application of extractSnippet: the lines of the content, the query, *)
(* the number of context lines, the result and whether it has been         *)
(* computed.                                                               *)
(***************************************************************************)
VARIABLES snLines, snQuery, snContext, snOut, snPc

snippetVars == <<snLines, snQuery, snContext, snOut, snPc>>

(***************************************************************************)
(* State of the ingestion runs: the artifacts of the output directory, the *)
(* tables of the run's database, the inputs of the run, the accumulators   *)
(* of its OpenAPI parse, the data handed to the writeDataToParquet call in *)
(* progress and its table, where the run stands, the artifacts as they     *)
(* were when the run started, and whether the run repeats the inputs of    *)
(* the run before it; and what the insert loop of the call in progress has *)
(* done: the rows it issued an INSERT for and the count it reported.       *)
(***************************************************************************)
VARIABLES published, tables, etlIn, etlAcc, etlData, etlTable, etlPc,
          etlBefore, etlRepeat, etlReport

etlVars == <<published, tables, etlIn, etlAcc, etlData, etlTable, etlPc,
             etlBefore, etlRepeat, etlReport>>

(***************************************************************************)
(* State of one call of handleGetDoc: the rows of the docs_content         *)
(* artifact, the files under /app/elevenlabs-docs, the arguments of the    *)
(* call and its outcome, with the statements handed to executeQuery and    *)
(* the paths handed to fs.readFile.                                        *)
(***************************************************************************)
VARIABLES docStore, docFiles, docArgs, docOut

docVars == <<docStore, docFiles, docArgs, docOut>>

(***************************************************************************)
(* State of one call of safeStringify: the object graph handed to it, the  *)
(* WeakSet seen of its replacer, the objects JSON.stringify is inside of   *)
(* (each with the index of its next property), the text produced so far,   *)
(* how often each object has been traversed, and where the call stands.    *)
(***************************************************************************)
VARIABLES sfGraph, sfSeen, sfStack, sfOut, sfTraversed, sfPc

stringifyVars == <<sfGraph, sfSeen, sfStack, sfOut, sfTraversed, sfPc>>

(***************************************************************************)
(* State of one call of handleListRepositoryPath: the directory tree of    *)
(* the repository, the entries whose listing the server refuses, the       *)
(* arguments of the call and its outcome.                                  *)
(***************************************************************************)
VARIABLES lsTree, lsRefused, lsArgs, lsOut

listVars == <<lsTree, lsRefused, lsArgs, lsOut>>

(***************************************************************************)
(* State of one call of handleGetApiFile: what the repository answers to   *)
(* a request for a file, the arguments of the call, its outcome and the    *)
(* paths it requested.                                                     *)
(***************************************************************************)
VARIABLES afRepo, afArgs, afOut, afFetched

apiFileVars == <<afRepo, afArgs, afOut, afFetched>>

(***************************************************************************)
(* State of one DuckDBService: the artifacts of the data directory and the *)
(* environment of the process, the await initializeDatabase stands at, the *)
(* instance and connection fields, where each query call stands, the SQL   *)
(* the query calls issued on the connection, how often initializeDatabase  *)
(* was started, and whether close() has returned.                          *)
(***************************************************************************)
VARIABLES svFiles, svEnv, svInit, svInstance, svConnection, svCalls, svIssued,
          svInitRuns, svClosed

serviceVars == <<svFiles, svEnv, svInit, svInstance, svConnection, svCalls,
                 svIssued, svInitRuns, svClosed>>

vars == <<searchVars, parseVars, mdVars, snippetVars, etlVars, docVars,
          stringifyVars, listVars, apiFileVars, serviceVars>>

\* What the steps of one operation leave alone: the state of the others.
exceptSearch ==
  <<parseVars, mdVars, snippetVars, etlVars, docVars, stringifyVars,
    listVars, apiFileVars, serviceVars>>
exceptParse ==
  <<searchVars, mdVars, snippetVars, etlVars, docVars, stringifyVars,
    listVars, apiFileVars, serviceVars>>
exceptMd ==
  <<searchVars, parseVars, snippetVars, etlVars, docVars, stringifyVars,
    listVars, apiFileVars, serviceVars>>
exceptSnippet ==
  <<searchVars, parseVars, mdVars, etlVars, docVars, stringifyVars,
    listVars, apiFileVars, serviceVars>>
exceptEtl ==
  <<searchVars, parseVars, mdVars, snippetVars, docVars, stringifyVars,
    listVars, apiFileVars, serviceVars>>
exceptDoc ==
  <<searchVars, parseVars, mdVars, snippetVars, etlVars, stringifyVars,
    listVars, apiFileVars, serviceVars>>
exceptStringify ==
  <<searchVars, parseVars, mdVars, snippetVars, etlVars, docVars, listVars,
    apiFileVars, serviceVars>>
exceptList ==
  <<searchVars, parseVars, mdVars, snippetVars, etlVars, docVars,
    stringifyVars, apiFileVars, serviceVars>>
exceptApiFile ==
  <<searchVars, parseVars, mdVars, snippetVars, etlVars, docVars,
    stringifyVars, listVars, serviceVars>>
exceptService ==
  <<searchVars, parseVars, mdVars, snippetVars, etlVars, docVars,
    stringifyVars, listVars, apiFileVars>>

NoCall == [status |-> "none", error |-> "", tier |-> "none", issued |-> <<>>,
           results |-> <<>>]

\* No call has been made yet.
NoArgs == [query |-> Undefined, hasLimit |-> FALSE, limit |-> 0,
           includeFullContent |-> FALSE, includeSchemaDefinition |-> FALSE]

MissingQueryError == "Missing required argument: query"
QueryExecutionError == "Error executing DuckDB query"

\* No ingestion run is in progress.
ParseIdle ==
  /\ corpus = <<>>
  /\ fileIdx = 1
  /\ apiData = <<>>
  /\ seenSchemas = {}
  /\ schemaUsage = <<>>
  /\ parsePc = "idle"

\* No query is being served and the artifacts are not read.
SearchIdle ==
  /\ apiSpec = <<>>
  /\ docsContent = <<>>
  /\ args = NoArgs
  /\ resp = NoCall

\* No Markdown ingestion run is in progress.
MdIdle ==
  /\ mdCorpus = <<>>
  /\ mdIdx = 1
  /\ markdownData = <<>>
  /\ mdPc = "idle"

NoSnippet == [snippet |-> <<>>, section |-> Undefined, lineNumber |-> 0]

\* extractSnippet is not being applied.
SnippetIdle ==
  /\ snLines = <<>>
  /\ snQuery = <<>>
  /\ snContext = 0
  /\ snOut = NoSnippet
  /\ snPc = "idle"

NoTables == [t \in TableNames |-> Absent]
NoInputs == [api |-> <<>>, md |-> <<>>, fault |-> NoFault, rejected |-> {}]

\* The insert loop of the call has not run.
NoReport == [attempted |-> <<>>, insertedCount |-> 0, of |-> 0]

\* No ingestion run has been started.
EtlIdle ==
  /\ published = NoTables
  /\ tables = NoTables
  /\ etlIn = NoInputs
  /\ etlAcc = [apiData |-> <<>>, seenSchemas |-> {}, schemaUsage |-> <<>>,
               threw |-> FALSE]
  /\ etlData = <<>>
  /\ etlTable = "api_spec"
  /\ etlPc = "idle"
  /\ etlBefore = NoTables
  /\ etlRepeat = FALSE
  /\ etlReport = NoReport

NoListing == [status |-> "none", error |-> "", contents |-> <<>>]

\* handleListRepositoryPath has not been called.
ListIdle ==
  /\ lsTree = <<>>
  /\ lsRefused = {}
  /\ lsArgs = [path |-> 0, hasPath |-> FALSE, depth |-> 0]
  /\ lsOut = NoListing

\* safeStringify is not being applied.
StringifyIdle ==
  /\ sfGraph = <<>>
  /\ sfSeen = {}
  /\ sfStack = <<>>
  /\ sfOut = <<>>
  /\ sfTraversed = <<>>
  /\ sfPc = "idle"

NoDocCall == [status |-> "none", error |-> "", raw |-> <<>>, queried |-> <<>>,
              read |-> <<>>]

\* handleGetDoc has not been called and nothing is stored.
DocIdle ==
  /\ docStore = <<>>
  /\ docFiles = <<>>
  /\ docArgs = [path |-> Undefined]
  /\ docOut = NoDocCall

NoApiFile == [status |-> "none", error |-> "", kind |-> "none", path |-> <<>>,
              lines |-> <<>>, lineNumber |-> 0, context |-> 0]

\* handleGetApiFile has not been called.
ApiFileIdle ==
  /\ afRepo = [ok |-> FALSE, content |-> <<>>]
  /\ afArgs = [filename |-> Undefined, filter |-> Undefined, context |-> 0]
  /\ afOut = NoApiFile
  /\ afFetched = {}

\* No DuckDBService has been constructed.
ServiceIdle ==
  /\ svFiles = [api |-> "missing", docs |-> "missing"]
  /\ svEnv = [dataDir |-> FALSE, etlWorks |-> FALSE]
  /\ svInit = "none"
  /\ svInstance = FALSE
  /\ svConnection = "null"
  /\ svCalls = <<>>
  /\ svIssued = {}
  /\ svInitRuns = 0
  /\ svClosed = FALSE

IdleExceptSearch ==
  ParseIdle /\ MdIdle /\ SnippetIdle /\ EtlIdle /\ DocIdle /\
  StringifyIdle /\ ListIdle /\ ApiFileIdle /\ ServiceIdle
IdleExceptParse ==
  SearchIdle /\ MdIdle /\ SnippetIdle /\ EtlIdle /\ DocIdle /\
  StringifyIdle /\ ListIdle /\ ApiFileIdle /\ ServiceIdle
IdleExceptMd ==
  SearchIdle /\ ParseIdle /\ SnippetIdle /\ EtlIdle /\ DocIdle /\
  StringifyIdle /\ ListIdle /\ ApiFileIdle /\ ServiceIdle
IdleExceptSnippet ==
  SearchIdle /\ ParseIdle /\ MdIdle /\ EtlIdle /\ DocIdle /\
  StringifyIdle /\ ListIdle /\ ApiFileIdle /\ ServiceIdle
IdleExceptEtl ==
  SearchIdle /\ ParseIdle /\ MdIdle /\ SnippetIdle /\ DocIdle /\
  StringifyIdle /\ ListIdle /\ ApiFileIdle /\ ServiceIdle
IdleExceptDoc ==
  SearchIdle /\ ParseIdle /\ MdIdle /\ SnippetIdle /\ EtlIdle /\
  StringifyIdle /\ ListIdle /\ ApiFileIdle /\ ServiceIdle
IdleExceptStringify ==
  SearchIdle /\ ParseIdle /\ MdIdle /\ SnippetIdle /\ EtlIdle /\ DocIdle /\
  ListIdle /\ ApiFileIdle /\ ServiceIdle
IdleExceptList ==
  SearchIdle /\ ParseIdle /\ MdIdle /\ SnippetIdle /\ EtlIdle /\ DocIdle /\
  StringifyIdle /\ ApiFileIdle /\ ServiceIdle
IdleExceptApiFile ==
  SearchIdle /\ ParseIdle /\ MdIdle /\ SnippetIdle /\ EtlIdle /\ DocIdle /\
  StringifyIdle /\ ListIdle /\ ServiceIdle
IdleExceptService ==
  SearchIdle /\ ParseIdle /\ MdIdle /\ SnippetIdle /\ EtlIdle /\ DocIdle /\
  StringifyIdle /\ ListIdle /\ ApiFileIdle

Init ==
  /\ apiSpec \in ApiArtifacts
  /\ docsContent \in MdArtifacts
  /\ args = NoArgs
  /\ resp = NoCall
  /\ IdleExceptSearch

\* if (!args.query) throw new Error("Missing required argument: query")
SearchMissingQuery(a) ==
  /\ resp.status = "none"
  /\ MissingQuery(a)
  /\ args' = a
  /\ resp' = [status |-> "error", error |-> MissingQueryError, tier |-> "none",
              issued |-> <<>>, results |-> <<>>]
  /\ UNCHANGED <<apiSpec, docsContent, exceptSearch>>

\* if (isExactSchemaQuery) { ... return { results: formattedResults } }
SearchExactTier(a) ==
  /\ resp.status = "none"
  /\ ~MissingQuery(a)
  /\ IsExactSchemaQuery(a.query)
  /\ \E out \in ExactScan(apiSpec, a.query, EffectiveLimit(a)) :
       resp' = [status |-> "ok", error |-> "", tier |-> "exact",
                issued |-> <<"exact">>,
                results |-> [i \in 1..Len(out) |-> FormatExact(out[i], apiSpec, a)]]
  /\ args' = a
  /\ UNCHANGED <<apiSpec, docsContent, exceptSearch>>

\* The multi-word statement of a query with no word is WHERE (), which the
\* store rejects; executeQuery rethrows.
SearchMultiWordRejected(a) ==
  /\ resp.status = "none"
  /\ ~MissingQuery(a)
  /\ ~IsExactSchemaQuery(a.query)
  /\ SplitWords(a.query) = <<>>
  /\ args' = a
  /\ resp' = [status |-> "error", error |-> QueryExecutionError, tier |-> "multi",
              issued |-> <<"multi">>, results |-> <<>>]
  /\ UNCHANGED <<apiSpec, docsContent, exceptSearch>>

SearchMultiWordTier(a) ==
  /\ resp.status = "none"
  /\ ~MissingQuery(a)
  /\ ~IsExactSchemaQuery(a.query)
  /\ LET words == SplitWords(a.query)
     IN /\ words # <<>>
        /\ \E out \in MultiScan(apiSpec, docsContent, words, EffectiveLimit(a)) :
             resp' = [status |-> "ok", error |-> "", tier |-> "multi",
                      issued |-> <<"multi">>,
                      results |-> [i \in 1..Len(out) |->
                                     FormatMulti(out[i], apiSpec, docsContent, a)]]
  /\ args' = a
  /\ UNCHANGED <<apiSpec, docsContent, exceptSearch>>

handleSearchDocs ==
  \E a \in SearchDocsArgs :
    \/ SearchMissingQuery(a)
    \/ SearchExactTier(a)
    \/ SearchMultiWordRejected(a)
    \/ SearchMultiWordTier(a)

\* The response is handed to the caller; the handler keeps nothing of the call.
Respond ==
  /\ resp.status # "none"
  /\ resp' = NoCall
  /\ args' = NoArgs
  /\ UNCHANGED <<apiSpec, docsContent, exceptSearch>>

Next == handleSearchDocs \/ Respond

(***************************************************************************)
(* The ingestion run of parseOpenApiFiles: one step per file of the loop.  *)
(***************************************************************************)
ParseInit ==
  /\ corpus \in Corpora
  /\ fileIdx = 1
  /\ apiData = <<>>
  /\ seenSchemas = {}
  /\ schemaUsage = <<>>
  /\ parsePc = "files"
  /\ IdleExceptParse

Accumulators ==
  [apiData |-> apiData, seenSchemas |-> seenSchemas, schemaUsage |-> schemaUsage,
   threw |-> FALSE]

\* The file's try block throws: dereference rejects the file, or a step of
\* its processing fails.
Throws(file) == file.malformed \/ VisitPaths(Accumulators, file, 1).threw

StepFile ==
  LET acc == ProcessFile(Accumulators, corpus[fileIdx])
  IN /\ apiData' = acc.apiData
     /\ seenSchemas' = acc.seenSchemas
     /\ schemaUsage' = acc.schemaUsage
     /\ fileIdx' = fileIdx + 1
     /\ UNCHANGED <<corpus, parsePc, exceptParse>>

ParseFile ==
  /\ parsePc = "files"
  /\ fileIdx <= Len(corpus)
  /\ ~Throws(corpus[fileIdx])
  /\ StepFile

\* catch (error) { console.error(...) }: the loop goes on with the next file
ParseFileFailed ==
  /\ parsePc = "files"
  /\ fileIdx <= Len(corpus)
  /\ Throws(corpus[fileIdx])
  /\ StepFile

\* return apiData
ParseReturn ==
  /\ parsePc = "files"
  /\ fileIdx > Len(corpus)
  /\ parsePc' = "returned"
  /\ UNCHANGED <<corpus, fileIdx, apiData, seenSchemas, schemaUsage, exceptParse>>

ParseNext == ParseFile \/ ParseFileFailed \/ ParseReturn

ParseSpec == ParseInit /\ [][ParseNext]_vars

(***************************************************************************)
(* The ingestion run of parseMarkdownFiles: one step per file of the loop. *)
(***************************************************************************)
MdParseInit ==
  /\ mdCorpus \in MdCorpora
  /\ mdIdx = 1
  /\ markdownData = <<>>
  /\ mdPc = "files"
  /\ IdleExceptMd

\* try { ... visit(ast, ...) ... }
MdParseFile ==
  /\ mdPc = "files"
  /\ mdIdx <= Len(mdCorpus)
  /\ ~mdCorpus[mdIdx].unreadable
  /\ markdownData' = ProcessMdFile(markdownData, mdCorpus[mdIdx])
  /\ mdIdx' = mdIdx + 1
  /\ UNCHANGED <<mdCorpus, mdPc, exceptMd>>

\* catch (error) { console.error(...) }: the loop goes on with the next file
MdParseFileFailed ==
  /\ mdPc = "files"
  /\ mdIdx <= Len(mdCorpus)
  /\ mdCorpus[mdIdx].unreadable
  /\ markdownData' = ProcessMdFile(markdownData, mdCorpus[mdIdx])
  /\ mdIdx' = mdIdx + 1
  /\ UNCHANGED <<mdCorpus, mdPc, exceptMd>>

\* return markdownData
MdParseReturn ==
  /\ mdPc = "files"
  /\ mdIdx > Len(mdCorpus)
  /\ mdPc' = "returned"
  /\ UNCHANGED <<mdCorpus, mdIdx, markdownData, exceptMd>>

MdParseNext == MdParseFile \/ MdParseFileFailed \/ MdParseReturn

MdSpec == MdParseInit /\ [][MdParseNext]_vars

(***************************************************************************)
(* extractSnippet applied to a content of a few lines.                     *)
(***************************************************************************)
sHeadTop == <<"#"," ","T","o","p"," ">>
sKeyId == <<"i","d",":">>
sAVoice == <<"a"," ","V","o","i","c","e">>
sPlain == <<"x",":","y">>
sHeadVoice == <<"#","#","\t","v","o","i","c","e","s">>
sNoMatch == <<"z","z">>

LinePool == { sHeadTop, sKeyId, sAVoice, sPlain, sHeadVoice, <<>> }

SnippetInit ==
  /\ snLines \in { q \in SeqsUpTo(LinePool, MaxSnippetLines) : Len(q) >= 1 }
  /\ snQuery \in { Lower(sVoice), sVoice, sNoMatch }
  /\ snContext \in 0..MaxContext
  /\ snOut = NoSnippet
  /\ snPc = "ready"
  /\ IdleExceptSnippet

\* the content the caller passes: the lines joined by line feeds
SnippetContent == Join(snLines, sNewline)

\* extractSnippet(content, query, linesContext)
ExtractWithContext ==
  /\ snPc = "ready"
  /\ snOut' = extractSnippetContext(SnippetContent, snQuery, snContext)
  /\ snPc' = "window"
  /\ UNCHANGED <<snLines, snQuery, snContext, exceptSnippet>>

\* extractSnippet(content, query)
ExtractMatchLine ==
  /\ snPc = "ready"
  /\ snOut' = extractSnippet(SnippetContent, snQuery)
  /\ snPc' = "line"
  /\ UNCHANGED <<snLines, snQuery, snContext, exceptSnippet>>

SnippetNext == ExtractWithContext \/ ExtractMatchLine

SnippetSpec == SnippetInit /\ [][SnippetNext]_vars

(***************************************************************************)
(* The ingestion runs.  runETL opens a fresh in-memory database, parses    *)
(* the OpenAPI files and writes api_spec, then parses the Markdown files   *)
(* and writes docs_content; writeDataToParquet is taken in its steps:      *)
(* entry, DROP/CREATE, the insert loop, COPY.  A statement that fails      *)
(* outside the insert loop is rethrown and ends the run by process.exit(1).*)
(***************************************************************************)
EtlInit ==
  /\ EtlIdle
  /\ IdleExceptEtl

\* runETL up to the first call of writeDataToParquet
RunStart(in) ==
  /\ etlPc \in {"idle", "completed", "failed"}
  /\ etlIn' = in
  /\ etlRepeat' = (etlPc # "idle" /\ in = etlIn)
  /\ etlBefore' = published
  /\ tables' = NoTables
  /\ etlAcc' = parseOpenApiFiles(etlAcc, in.api)
  /\ etlData' = etlAcc'.apiData
  /\ etlTable' = "api_spec"
  /\ etlPc' = "write"
  /\ etlReport' = NoReport
  /\ UNCHANGED <<published, exceptEtl>>

\* if (!data || data.length === 0) { console.warn(...); return; }
WriteSkipped ==
  /\ etlPc = "write"
  /\ etlData = <<>>
  /\ etlPc' = "returned"
  /\ UNCHANGED <<published, tables, etlIn, etlAcc, etlData, etlTable, etlBefore,
                 etlRepeat, etlReport, exceptEtl>>

\* DROP TABLE IF EXISTS ...; CREATE OR REPLACE TABLE ...
WriteCreateTable ==
  /\ etlPc = "write"
  /\ etlData # <<>>
  /\ etlIn.fault # <<"create", etlTable>>
  /\ tables' = [tables EXCEPT ![etlTable] = Holding(<<>>)]
  /\ etlPc' = "insert"
  /\ UNCHANGED <<published, etlIn, etlAcc, etlData, etlTable, etlBefore,
                 etlRepeat, etlReport, exceptEtl>>

\* The table cannot be created: catch, rethrow, process.exit(1).
WriteCreateFailed ==
  /\ etlPc = "write"
  /\ etlData # <<>>
  /\ etlIn.fault = <<"create", etlTable>>
  /\ etlPc' = "failed"
  /\ UNCHANGED <<published, tables, etlIn, etlAcc, etlData, etlTable, etlBefore,
                 etlRepeat, etlReport, exceptEtl>>

\* for (const row of data) { ... INSERT INTO ... }
WriteInsertRows ==
  /\ etlPc = "insert"
  /\ tables' = [tables EXCEPT ![etlTable] =
                  Holding(InsertedRows(etlData, ColumnsOf(etlTable),
                                       etlIn.rejected, 1))]
  /\ etlReport' = [attempted |-> InsertAttempts(etlData, etlIn.rejected, 1),
                   insertedCount |-> InsertedCount(etlData, etlIn.rejected, 1),
                   of |-> Len(etlData)]
  /\ etlPc' = "export"
  /\ UNCHANGED <<published, etlIn, etlAcc, etlData, etlTable, etlBefore,
                 etlRepeat, exceptEtl>>

\* COPY ... TO '...' (FORMAT PARQUET)
WriteExport ==
  /\ etlPc = "export"
  /\ etlIn.fault # <<"export", etlTable>>
  /\ published' = [published EXCEPT ![etlTable] = tables[etlTable]]
  /\ etlPc' = "returned"
  /\ UNCHANGED <<tables, etlIn, etlAcc, etlData, etlTable, etlBefore,
                 etlRepeat, etlReport, exceptEtl>>

\* The export fails and leaves the file of the output path as it was:
\* catch, rethrow, process.exit(1).
WriteExportFailed ==
  /\ etlPc = "export"
  /\ etlIn.fault = <<"export", etlTable>>
  /\ etlPc' = "failed"
  /\ UNCHANGED <<published, tables, etlIn, etlAcc, etlData, etlTable, etlBefore,
                 etlRepeat, etlReport, exceptEtl>>

\* const markdownData = await parseMarkdownFiles(submodulePath), and the
\* second call of writeDataToParquet
RunParseMarkdown ==
  /\ etlPc = "returned"
  /\ etlTable = "api_spec"
  /\ etlData' = parseMarkdownFiles(etlIn.md)
  /\ etlTable' = "docs_content"
  /\ etlPc' = "write"
  /\ etlReport' = NoReport
  /\ UNCHANGED <<published, tables, etlIn, etlAcc, etlBefore, etlRepeat,
                 exceptEtl>>

\* 'ETL process completed successfully.'
RunCompleted ==
  /\ etlPc = "returned"
  /\ etlTable = "docs_content"
  /\ etlPc' = "completed"
  /\ UNCHANGED <<published, tables, etlIn, etlAcc, etlData, etlTable, etlBefore,
                 etlRepeat, etlReport, exceptEtl>>

writeDataToParquet ==
  \/ WriteSkipped
  \/ WriteCreateTable
  \/ WriteCreateFailed
  \/ WriteInsertRows
  \/ WriteExport
  \/ WriteExportFailed

runETL ==
  \/ \E in \in EtlInputs : RunStart(in)
  \/ RunParseMarkdown
  \/ RunCompleted

EtlNext == writeDataToParquet \/ runETL

EtlSpec == EtlInit /\ [][EtlNext]_vars

(***************************************************************************)
(* handleGetDoc.  The store holds rows of docs_content as the ingestion    *)
(* writes them: filePath relative to the root of the documentation         *)
(* checkout, content not empty.  A file of the checkout is there, is       *)
(* missing (ENOENT) or cannot be read for another reason.                  *)
(***************************************************************************)
MaxDocRows == 2

sFern == <<"f","e","r","n","/">>
sGuide == <<"g",".","m","d">>
sReadme == <<"R",".","m","d">>
sStoredText == <<"s","t","o","r","e","d">>
sFileText == <<"f","i","l","e">>

DocPathPool == { sFern \o sGuide, sGuide, sReadme }
DocRowPool == [filePath : DocPathPool, content : {sStoredText, sBody}]
DocStores == SeqsUpTo(DocRowPool, MaxDocRows)

StartsWith(s, prefix) ==
  Len(s) >= Len(prefix) /\ SubSeq(s, 1, Len(prefix)) = prefix

\* args.path.startsWith("fern/") ? args.path : `fern/${args.path}`
FullPath(p) == IF StartsWith(p, sFern) THEN p ELSE sFern \o p

DocFileStates ==
  { [code |-> "ok", content |-> sFileText],
    [code |-> "ENOENT", content |-> <<>>],
    [code |-> "EACCES", content |-> <<>>] }
DocFileSystems == [{ FullPath(p) : p \in DocPathPool } -> DocFileStates]

GetDocArgs == [path : DocPathPool \cup {Undefined, NULL, <<>>}]

MissingPathError == "Missing required argument: path"
DocumentNotFound == "Document not found: "
CouldNotRetrieve == "Could not retrieve document: "

\* The rows WHERE filePath = ? selects
StoredMatches(store, fullPath) ==
  { i \in 1..Len(store) : store[i].filePath = fullPath }

DocInit ==
  /\ docStore \in DocStores
  /\ docFiles \in DocFileSystems
  /\ docArgs = [path |-> Undefined]
  /\ docOut = NoDocCall
  /\ IdleExceptDoc

\* if (!args.path) throw new Error("Missing required argument: path")
GetDocMissingPath(a) ==
  /\ docOut.status = "none"
  /\ ~Truthy(a.path)
  /\ docArgs' = a
  /\ docOut' = [NoDocCall EXCEPT !.status = "error", !.error = MissingPathError]
  /\ UNCHANGED <<docStore, docFiles, exceptDoc>>

\* executeQuery rejects (the artifact cannot be read): the error goes to
\* the caller.
GetDocStoreFailed(a) ==
  /\ docOut.status = "none"
  /\ Truthy(a.path)
  /\ docArgs' = a
  /\ docOut' = [NoDocCall EXCEPT !.status = "error",
                                 !.error = QueryExecutionError,
                                 !.queried = <<FullPath(a.path)>>]
  /\ UNCHANGED <<docStore, docFiles, exceptDoc>>

\* if (dbResults && dbResults.length > 0 && dbResults[0].content) return ...
\* LIMIT 1 without ORDER BY: any of the matching rows.
GetDocFromStore(a) ==
  /\ docOut.status = "none"
  /\ Truthy(a.path)
  /\ \E i \in StoredMatches(docStore, FullPath(a.path)) :
       /\ Truthy(docStore[i].content)
       /\ docOut' = [NoDocCall EXCEPT !.status = "ok",
                                      !.raw = docStore[i].content,
                                      !.queried = <<FullPath(a.path)>>]
  /\ docArgs' = a
  /\ UNCHANGED <<docStore, docFiles, exceptDoc>>

\* The fallback: fs.readFile(path.resolve('/app/elevenlabs-docs', fullPath))
GetDocFromFile(a) ==
  /\ docOut.status = "none"
  /\ Truthy(a.path)
  /\ \/ StoredMatches(docStore, FullPath(a.path)) = {}
     \/ \E i \in StoredMatches(docStore, FullPath(a.path)) :
          ~Truthy(docStore[i].content)
  /\ LET fullPath == FullPath(a.path)
         file == docFiles[fullPath]
     IN docOut' =
          [NoDocCall EXCEPT
             !.status = IF file.code = "ok" THEN "ok" ELSE "error",
             !.raw = file.content,
             !.error = IF file.code = "ok" THEN ""
                       ELSE IF file.code = "ENOENT" THEN DocumentNotFound
                       ELSE CouldNotRetrieve,
             !.queried = <<fullPath>>,
             !.read = <<fullPath>>]
  /\ docArgs' = a
  /\ UNCHANGED <<docStore, docFiles, exceptDoc>>

handleGetDoc ==
  \E a \in GetDocArgs :
    \/ GetDocMissingPath(a)
    \/ GetDocStoreFailed(a)
    \/ GetDocFromStore(a)
    \/ GetDocFromFile(a)

\* The next call.
GetDocDone ==
  /\ docOut.status # "none"
  /\ docArgs' = [path |-> Undefined]
  /\ docOut' = NoDocCall
  /\ UNCHANGED <<docStore, docFiles, exceptDoc>>

GetDocNext == handleGetDoc \/ GetDocDone

GetDocSpec == DocInit /\ [][GetDocNext]_vars

(***************************************************************************)
(* safeStringify: JSON.stringify(obj, replacer, 2) with the replacer that  *)
(* keeps a WeakSet of the objects it has been handed.  An object graph is  *)
(* a function from object identities to the values of the object's         *)
(* properties, in key order; a value is a primitive (0) or the identity of *)
(* an object.  Object 1 is the argument of the call.  JSON.stringify hands *)
(* each value to the replacer and serializes what the replacer returns:    *)
(* it goes into an object the replacer returned and writes a string the    *)
(* replacer returned.                                                      *)
(***************************************************************************)
MaxObjects == 2

Objects == 1..MaxObjects
Primitive == 0
PropertiesPerObject == 2
ObjectGraphs == [Objects -> [1..PropertiesPerObject -> {Primitive} \cup Objects]]

\* A replacer that knows only the objects JSON.stringify is inside of.
OnPathOnly(seen, stack, value) == \E i \in 1..Len(stack) : stack[i].obj = value

\* seen.has(value)
SeenHas(seen, stack, value) == value \in seen

Frame(o, i) == [obj |-> o, idx |-> i]

StringifyInit ==
  /\ sfGraph \in ObjectGraphs
  /\ sfSeen = {}
  /\ sfStack = <<>>
  /\ sfOut = <<>>
  /\ sfTraversed = [o \in Objects |-> 0]
  /\ sfPc = "call"
  /\ IdleExceptStringify

\* The replacer on the argument itself (key ""): seen is empty.
StringifyRoot ==
  /\ sfPc = "call"
  /\ sfSeen' = {1}
  /\ sfStack' = << Frame(1, 1) >>
  /\ sfOut' = << "{" >>
  /\ sfTraversed' = [sfTraversed EXCEPT ![1] = @ + 1]
  /\ sfPc' = "running"
  /\ UNCHANGED <<sfGraph, exceptStringify>>

Top == sfStack[Len(sfStack)]
TopValue == sfGraph[Top.obj][Top.idx]
Advanced == [sfStack EXCEPT ![Len(sfStack)].idx = @ + 1]

\* typeof value !== "object": the replacer returns the value as it is
StringifyPrimitive ==
  /\ sfPc = "running"
  /\ Top.idx <= PropertiesPerObject
  /\ TopValue = Primitive
  /\ sfStack' = Advanced
  /\ sfOut' = Append(sfOut, "primitive")
  /\ UNCHANGED <<sfGraph, sfSeen, sfTraversed, sfPc, exceptStringify>>

\* if (seen.has(value)) return "[Circular]"
StringifyCircular ==
  /\ sfPc = "running"
  /\ Top.idx <= PropertiesPerObject
  /\ TopValue # Primitive
  /\ SeenHas(sfSeen, sfStack, TopValue)
  /\ sfStack' = Advanced
  /\ sfOut' = Append(sfOut, "[Circular]")
  /\ UNCHANGED <<sfGraph, sfSeen, sfTraversed, sfPc, exceptStringify>>

\* seen.add(value); return value: JSON.stringify goes into the object
StringifyObject ==
  /\ sfPc = "running"
  /\ Top.idx <= PropertiesPerObject
  /\ TopValue # Primitive
  /\ ~SeenHas(sfSeen, sfStack, TopValue)
  /\ sfSeen' = sfSeen \cup {TopValue}
  /\ sfStack' = Append(Advanced, Frame(TopValue, 1))
  /\ sfOut' = Append(sfOut, "{")
  /\ sfTraversed' = [sfTraversed EXCEPT ![TopValue] = @ + 1]
  /\ UNCHANGED <<sfGraph, sfPc, exceptStringify>>

\* The properties of the object are done; with the argument done the call
\* returns.
StringifyClose ==
  /\ sfPc = "running"
  /\ Top.idx > PropertiesPerObject
  /\ sfStack' = SubSeq(sfStack, 1, Len(sfStack) - 1)
  /\ sfOut' = Append(sfOut, "}")
  /\ sfPc' = IF Len(sfStack) = 1 THEN "returned" ELSE "running"
  /\ UNCHANGED <<sfGraph, sfSeen, sfTraversed, exceptStringify>>

StringifyNext ==
  \/ StringifyRoot
  \/ StringifyPrimitive
  \/ StringifyCircular
  \/ StringifyObject
  \/ StringifyClose

\* The call runs on: nothing else is scheduled while JSON.stringify runs.
StringifySpec == StringifyInit /\ [][StringifyNext]_vars /\ WF_vars(StringifyNext)

(***************************************************************************)
(* handleListRepositoryPath and ElevenLabsClient.listContents.  The        *)
(* repository below the root path is a tree of entries 1..n; entry 0 is    *)
(* the root itself.  The contents endpoint answers a directory with the    *)
(* array of its direct entries and a file with one object; a refused       *)
(* request has response.ok false.                                          *)
(***************************************************************************)
MaxEntries == 4
MaxDepth == 3

RepoRoot == 0
Entries == 1..MaxEntries

RepoTrees ==
  { t \in [Entries -> [parent : {RepoRoot} \cup Entries, type : {"dir", "file"}]] :
      \A n \in Entries :
        /\ t[n].parent < n
        /\ t[n].parent # RepoRoot => t[t[n].parent].type = "dir" }

IsDir(tree, n) == n = RepoRoot \/ tree[n].type = "dir"

\* The array the endpoint answers for a directory, in name order.
RECURSIVE ChildrenFrom(_, _, _)
ChildrenFrom(tree, dir, n) ==
  IF n > MaxEntries THEN <<>>
  ELSE (IF tree[n].parent = dir THEN <<n>> ELSE <<>>) \o ChildrenFrom(tree, dir, n + 1)

Children(tree, dir) == ChildrenFrom(tree, dir, 1)

Listed(items) == [ok |-> TRUE, items |-> items]
ListFailed == [ok |-> FALSE, items |-> <<>>]

\* if (!recursive || depth <= 0) return items
Recurses(recursive, depth) == recursive /\ depth > 0

\* listContents(path, recursive, depth); the loop over items starts at i.
RECURSIVE listContents(_, _, _, _, _)
RECURSIVE ListItems(_, _, _, _, _)
ListItems(tree, refused, items, depth, i) ==
  IF i > Len(items) THEN <<>>
  ELSE LET subItems == IF IsDir(tree, items[i])
                       THEN listContents(tree, refused, items[i], TRUE, depth - 1)
                       ELSE ListFailed
       IN <<items[i]>> \o (IF subItems.ok THEN subItems.items ELSE <<>>)
          \o ListItems(tree, refused, items, depth, i + 1)

listContents(tree, refused, path, recursive, depth) ==
  IF path \in refused THEN ListFailed
  ELSE IF ~IsDir(tree, path)
       THEN IF Recurses(recursive, depth) THEN ListFailed ELSE Listed(<<path>>)
       ELSE IF Recurses(recursive, depth)
            THEN Listed(ListItems(tree, refused, Children(tree, path), depth, 1))
            ELSE Listed(Children(tree, path))

ListRepositoryPathArgs ==
  [path : {RepoRoot} \cup Entries, hasPath : BOOLEAN, depth : 0..MaxDepth]

\* const depth = args.depth || 1 (an absent depth is given as 0)
DepthOf(a) == IF a.depth = 0 THEN 1 ELSE a.depth

ListFailedError == "Failed to list contents"

ListInit ==
  /\ lsTree \in RepoTrees
  /\ lsRefused \in { {} } \cup { {n} : n \in {RepoRoot} \cup Entries }
  /\ lsArgs = [path |-> 0, hasPath |-> FALSE, depth |-> 0]
  /\ lsOut = NoListing
  /\ IdleExceptList

\* if (!args.path) throw new Error("Missing required argument: path")
ListMissingPath(a) ==
  /\ lsOut.status = "none"
  /\ ~a.hasPath
  /\ a.path = RepoRoot
  /\ lsArgs' = a
  /\ lsOut' = [NoListing EXCEPT !.status = "error", !.error = MissingPathError]
  /\ UNCHANGED <<lsTree, lsRefused, exceptList>>

\* listContents rejects: the request for the path itself is refused, or the
\* path is a file and the loop over its object throws.
ListPathFailed(a) ==
  /\ lsOut.status = "none"
  /\ a.hasPath
  /\ ~listContents(lsTree, lsRefused, a.path, DepthOf(a) > 1, DepthOf(a)).ok
  /\ lsArgs' = a
  /\ lsOut' = [NoListing EXCEPT !.status = "error", !.error = ListFailedError]
  /\ UNCHANGED <<lsTree, lsRefused, exceptList>>

\* return { contents: processedContents }
ListPath(a) ==
  /\ lsOut.status = "none"
  /\ a.hasPath
  /\ LET contents == listContents(lsTree, lsRefused, a.path, DepthOf(a) > 1,
                                  DepthOf(a))
     IN /\ contents.ok
        /\ lsOut' = [NoListing EXCEPT !.status = "ok", !.contents = contents.items]
  /\ lsArgs' = a
  /\ UNCHANGED <<lsTree, lsRefused, exceptList>>

handleListRepositoryPath ==
  \E a \in ListRepositoryPathArgs :
    ListMissingPath(a) \/ ListPathFailed(a) \/ ListPath(a)

\* The next call.
ListDone ==
  /\ lsOut.status # "none"
  /\ lsArgs' = [path |-> 0, hasPath |-> FALSE, depth |-> 0]
  /\ lsOut' = NoListing
  /\ UNCHANGED <<lsTree, lsRefused, exceptList>>

ListNext == handleListRepositoryPath \/ ListDone

ListSpec == ListInit /\ [][ListNext]_vars

(***************************************************************************)
(* handleGetApiFile.  File names and paths are strings of characters, the  *)
(* content of a file is its text.                                          *)
(***************************************************************************)
MaxFileLines == 4
DefaultContext == 12

sApisApi == sFern \o <<"a","p","i","s","/","a","p","i","/">>
sApisConvai == sFern \o <<"a","p","i","s","/","c","o","n","v","a","i","/">>
sAsyncapiYml == <<"a","s","y","n","c","a","p","i",".","y","m","l">>
sGeneratorsYml == <<"g","e","n","e","r","a","t","o","r","s",".","y","m","l">>
sOverridesYml == <<"o","p","e","n","a","p","i","-","o","v","e","r","r","i","d","e","s",".","y","m","l">>
sOpenapiJson == <<"o","p","e","n","a","p","i",".","j","s","o","n">>

allowedFiles ==
  << sApisApi \o sAsyncapiYml,
     sApisApi \o sGeneratorsYml,
     sApisApi \o sOverridesYml,
     sApisApi \o sOpenapiJson,
     sApisConvai \o sAsyncapiYml,
     sApisConvai \o sGeneratorsYml,
     sApisConvai \o sOpenapiJson >>

\* String.prototype.endsWith
EndsWith(s, suffix) ==
  /\ Len(suffix) <= Len(s)
  /\ SubSeq(s, Len(s) - Len(suffix) + 1, Len(s)) = suffix

\* allowedFiles.find((f) => f.endsWith(args.filename)); <<>> for undefined
AllowedMatch(filename) ==
  IF \E i \in 1..Len(allowedFiles) : EndsWith(allowedFiles[i], filename)
  THEN allowedFiles[CHOOSE i \in 1..Len(allowedFiles) :
                      /\ EndsWith(allowedFiles[i], filename)
                      /\ \A j \in 1..(i - 1) : ~EndsWith(allowedFiles[j], filename)]
  ELSE <<>>

\* typeof args.context === "number" && args.context > 0 ? args.context : 12
\* (a context that is absent is given as 0)
ContextOf(a) == IF a.context > 0 THEN a.context ELSE DefaultContext

\* The index of the first line that includes the filter, both in lower
\* case; -1 when no line does.
MatchLine(lines, filter) ==
  IF \E i \in 1..Len(lines) : Includes(Lower(lines[i]), Lower(filter))
  THEN (CHOOSE i \in 1..Len(lines) :
          /\ Includes(Lower(lines[i]), Lower(filter))
          /\ \A j \in 1..(i - 1) : ~Includes(Lower(lines[j]), Lower(filter))) - 1
  ELSE -1

\* lines.slice(start, end) with start = max(0, matchLine - context) and
\* end = min(lines.length, matchLine + context + 1)
SnippetLines(lines, matchLine, context) ==
  SubSeq(lines, Max(0, matchLine - context) + 1,
         Min(Len(lines), matchLine + context + 1))

ApiFileNames ==
  { Undefined, sOpenapiJson, <<"c","o","n","v","a","i","/","o","p","e","n","a","p","i",".","j","s","o","n">>, <<"j","s","o","n">>, sAsyncapiYml, <<"s","e","c","r","e","t","s",".","e","n","v">> }
ApiFileFilters == { Undefined, <<>>, <<"b">>, <<"x">> }
ApiFileLines == { <<"a">>, <<"B">>, <<"a","b">> }
GetApiFileArgs ==
  [filename : ApiFileNames, filter : ApiFileFilters, context : 0..MaxContext]

\* What getFileContent answers: the decoded text of the file, or a failure.
ApiFileAnswers ==
  { [ok |-> FALSE, content |-> <<>>] } \cup
  { [ok |-> TRUE, content |-> Join(ls, <<"\n">>)] :
      ls \in SeqsUpTo(ApiFileLines, MaxFileLines) \ { <<>> } }

MissingFilenameError == "Missing required argument: filename"
NotAllowedError == "Requested file is not an allowed API spec file."
RetrieveFailedError == "Failed to retrieve file content."

ApiFileInit ==
  /\ afRepo \in ApiFileAnswers
  /\ afArgs = [filename |-> Undefined, filter |-> Undefined, context |-> 0]
  /\ afOut = NoApiFile
  /\ afFetched = {}
  /\ IdleExceptApiFile

\* if (!args.filename) throw new Error("Missing required argument: filename")
ApiFileMissingName(a) ==
  /\ afOut.status = "none"
  /\ ~Truthy(a.filename)
  /\ afArgs' = a
  /\ afOut' = [NoApiFile EXCEPT !.status = "error", !.error = MissingFilenameError]
  /\ UNCHANGED <<afRepo, afFetched, exceptApiFile>>

\* if (!match) throw new Error("Requested file is not an allowed ...")
ApiFileNotAllowed(a) ==
  /\ afOut.status = "none"
  /\ Truthy(a.filename)
  /\ AllowedMatch(a.filename) = <<>>
  /\ afArgs' = a
  /\ afOut' = [NoApiFile EXCEPT !.status = "error", !.error = NotAllowedError]
  /\ UNCHANGED <<afRepo, afFetched, exceptApiFile>>

\* getFileContent throws, or the filter of openapi.json is missing: the
\* catch turns either into "Failed to retrieve file content."
ApiFileFailed(a) ==
  /\ afOut.status = "none"
  /\ Truthy(a.filename)
  /\ AllowedMatch(a.filename) # <<>>
  /\ \/ ~afRepo.ok
     \/ a.filename = sOpenapiJson /\ ~Truthy(a.filter)
  /\ afArgs' = a
  /\ afFetched' = afFetched \cup { AllowedMatch(a.filename) }
  /\ afOut' = [NoApiFile EXCEPT !.status = "error", !.error = RetrieveFailedError,
                                !.path = AllowedMatch(a.filename)]
  /\ UNCHANGED <<afRepo, exceptApiFile>>

\* if (args.filename === "openapi.json") { ... the snippet around the first
\* matching line, or "No match found for filter." }
ApiFileSnippet(a) ==
  /\ afOut.status = "none"
  /\ Truthy(a.filename)
  /\ AllowedMatch(a.filename) # <<>>
  /\ afRepo.ok
  /\ a.filename = sOpenapiJson
  /\ Truthy(a.filter)
  /\ afArgs' = a
  /\ afFetched' = afFetched \cup { AllowedMatch(a.filename) }
  /\ LET lines == SplitLines(afRepo.content)
         matchLine == MatchLine(lines, a.filter)
     IN afOut' =
          IF matchLine = -1
          THEN [NoApiFile EXCEPT !.status = "ok", !.kind = "no match",
                                 !.path = AllowedMatch(a.filename)]
          ELSE [status |-> "ok", error |-> "", kind |-> "snippet",
                path |-> AllowedMatch(a.filename),
                lines |-> SnippetLines(lines, matchLine, ContextOf(a)),
                lineNumber |-> matchLine + 1, context |-> ContextOf(a)]
  /\ UNCHANGED <<afRepo, exceptApiFile>>

\* For other files, return the full content
ApiFileContent(a) ==
  /\ afOut.status = "none"
  /\ Truthy(a.filename)
  /\ AllowedMatch(a.filename) # <<>>
  /\ afRepo.ok
  /\ a.filename # sOpenapiJson
  /\ afArgs' = a
  /\ afFetched' = afFetched \cup { AllowedMatch(a.filename) }
  /\ afOut' = [NoApiFile EXCEPT !.status = "ok", !.kind = "content",
                                !.path = AllowedMatch(a.filename),
                                !.lines = SplitLines(afRepo.content)]
  /\ UNCHANGED <<afRepo, exceptApiFile>>

handleGetApiFile ==
  \E a \in GetApiFileArgs :
    \/ ApiFileMissingName(a)
    \/ ApiFileNotAllowed(a)
    \/ ApiFileFailed(a)
    \/ ApiFileSnippet(a)
    \/ ApiFileContent(a)

\* The next call.
ApiFileDone ==
  /\ afOut.status # "none"
  /\ afArgs' = [filename |-> Undefined, filter |-> Undefined, context |-> 0]
  /\ afOut' = NoApiFile
  /\ afFetched' = {}
  /\ UNCHANGED <<afRepo, exceptApiFile>>

ApiFileNext == handleGetApiFile \/ ApiFileDone

ApiFileSpec == ApiFileInit /\ [][ApiFileNext]_vars

(***************************************************************************)
(* DuckDBService.  The constructor starts initializeDatabase, which runs   *)
(* up to its first await; each action below is the continuation of one     *)
(* await of initializeDatabase or of a query call, or the synchronous body *)
(* of close().  DuckDBInstance.create(':memory:'), connect() and           *)
(* disconnectSync() are taken to succeed.                                  *)
(***************************************************************************)
MaxCalls == 2

Calls == 1..MaxCalls
FileStates == {"ok", "missing", "unreadable"}
NotCalled == [pc |-> "idle", afterClose |-> FALSE]

\* A query call that goes on as soon as there is a connection, without
\* waiting for the initialization to settle.
ensureConnection(init, connection) ==
  IF init = "rejected" THEN "throw initialization"
  ELSE IF connection = "null" THEN "wait"
  ELSE "go on"

\* await this.dbInitialized; if (!this.connection) throw ...
ensureInitialized(init, connection) ==
  IF init = "rejected" THEN "throw initialization"
  ELSE IF init # "resolved" THEN "wait"
  ELSE IF connection = "null" THEN "throw connection"
  ELSE "go on"

\* SELECT COUNT(*) FROM read_parquet(?) LIMIT 1 on the file; a statement in
\* flight on a connection that close() disconnected may fail or succeed.
Verified(file, connection) ==
  IF file # "ok" THEN {FALSE}
  ELSE IF connection = "null" THEN {TRUE, FALSE}
  ELSE {TRUE}

ServiceInit ==
  /\ svFiles \in [api : FileStates, docs : FileStates]
  /\ svEnv \in [dataDir : BOOLEAN, etlWorks : BOOLEAN]
  /\ svInit = "create"
  /\ svInstance = FALSE
  /\ svConnection = "null"
  /\ svCalls = [c \in Calls |-> NotCalled]
  /\ svIssued = {}
  /\ svInitRuns = 1
  /\ svClosed = FALSE
  /\ IdleExceptService

\* this.instance = await DuckDBInstance.create(':memory:')
InitCreated ==
  /\ svInit = "create"
  /\ svInstance' = TRUE
  /\ svInit' = "connect"
  /\ UNCHANGED <<svFiles, svEnv, svConnection, svCalls, svIssued, svInitRuns,
                 svClosed, exceptService>>

\* this.connection = await this.instance.connect()
InitConnected ==
  /\ svInit = "connect"
  /\ svConnection' = "open"
  /\ svInit' = "ensure"
  /\ UNCHANGED <<svFiles, svEnv, svInstance, svCalls, svIssued, svInitRuns,
                 svClosed, exceptService>>

\* await this.ensureDataFilesExist(), then verifyParquetFile(apiSpecPath) up
\* to its statement.  Without DATA_DIR a missing api_spec.parquet makes the
\* service run the ETL script, which writes both artifacts or fails.
InitEnsured ==
  /\ svInit = "ensure"
  /\ LET runsEtl == ~svEnv.dataDir /\ svFiles.api = "missing"
     IN /\ svFiles' = IF runsEtl /\ svEnv.etlWorks
                      THEN [api |-> "ok", docs |-> "ok"]
                      ELSE svFiles
        /\ svInit' = IF runsEtl /\ ~svEnv.etlWorks THEN "rejected"
                     ELSE IF svConnection = "null" THEN "rejected"
                     ELSE "verifyApi"
  /\ UNCHANGED <<svEnv, svInstance, svConnection, svCalls, svIssued, svInitRuns,
                 svClosed, exceptService>>

\* The statement on api_spec.parquet settles; verifyParquetFile(docsContentPath)
\* up to its statement.
InitVerifiedApi ==
  /\ svInit = "verifyApi"
  /\ \E ok \in Verified(svFiles.api, svConnection) :
       svInit' = IF ~ok \/ svConnection = "null" THEN "rejected" ELSE "verifyDocs"
  /\ UNCHANGED <<svFiles, svEnv, svInstance, svConnection, svCalls, svIssued,
                 svInitRuns, svClosed, exceptService>>

\* The statement on docs_content.parquet settles: initializeDatabase returns,
\* or throws 'DuckDB initialization failed'.
InitVerifiedDocs ==
  /\ svInit = "verifyDocs"
  /\ \E ok \in Verified(svFiles.docs, svConnection) :
       svInit' = IF ok THEN "resolved" ELSE "rejected"
  /\ UNCHANGED <<svFiles, svEnv, svInstance, svConnection, svCalls, svIssued,
                 svInitRuns, svClosed, exceptService>>

initializeDatabase ==
  \/ InitCreated
  \/ InitConnected
  \/ InitEnsured
  \/ InitVerifiedApi
  \/ InitVerifiedDocs

\* executeQuery or executeQueryFirstRow is called: await this.ensureInitialized()
QueryCalled(c) ==
  /\ svCalls[c].pc \in {"idle", "resolved", "rejected"}
  /\ svCalls' = [svCalls EXCEPT ![c] = [pc |-> "ensuring", afterClose |-> svClosed]]
  /\ UNCHANGED <<svFiles, svEnv, svInit, svInstance, svConnection, svIssued,
                 svInitRuns, svClosed, exceptService>>

\* ensureInitialized settles.
QueryEnsured(c) ==
  /\ svCalls[c].pc = "ensuring"
  /\ ensureInitialized(svInit, svConnection) # "wait"
  /\ svCalls' = [svCalls EXCEPT ![c].pc =
                   IF ensureInitialized(svInit, svConnection) = "go on"
                   THEN "ensured" ELSE "rejected"]
  /\ UNCHANGED <<svFiles, svEnv, svInit, svInstance, svConnection, svIssued,
                 svInitRuns, svClosed, exceptService>>

\* (this.connection!).runAndReadAll(sql, params): the statement is issued on
\* the connection, or the call on null throws and the catch rethrows.
QueryIssued(c) ==
  /\ svCalls[c].pc = "ensured"
  /\ IF svConnection = "null"
     THEN /\ svCalls' = [svCalls EXCEPT ![c].pc = "rejected"]
          /\ UNCHANGED svIssued
     ELSE /\ svCalls' = [svCalls EXCEPT ![c].pc = "running"]
          /\ svIssued' = svIssued \cup { [init |-> svInit, closed |-> svClosed] }
  /\ UNCHANGED <<svFiles, svEnv, svInit, svInstance, svConnection, svInitRuns,
                 svClosed, exceptService>>

\* The statement settles: the rows are returned, or the error is rethrown.
QuerySettled(c) ==
  /\ svCalls[c].pc = "running"
  /\ \E outcome \in {"resolved", "rejected"} :
       svCalls' = [svCalls EXCEPT ![c].pc = outcome]
  /\ UNCHANGED <<svFiles, svEnv, svInit, svInstance, svConnection, svIssued,
                 svInitRuns, svClosed, exceptService>>

executeQuery ==
  \E c \in Calls :
    QueryCalled(c) \/ QueryEnsured(c) \/ QueryIssued(c) \/ QuerySettled(c)

\* close(): no await in its body, so it runs from call to return between two
\* continuations of the others.
close ==
  /\ ~svClosed
  /\ svConnection' = "null"
  /\ svInstance' = FALSE
  /\ svClosed' = TRUE
  /\ UNCHANGED <<svFiles, svEnv, svInit, svCalls, svIssued, svInitRuns,
                 exceptService>>

ServiceNext == initializeDatabase \/ executeQuery \/ close

ServiceSpec == ServiceInit /\ [][ServiceNext]_vars

(***************************************************************************)
(* Properties of extractSnippet.                                           *)
(***************************************************************************)
\* the lines that contain the query, letter case ignored
MatchingLines ==
  { i \in 1..Len(snLines) :
      \E k \in 0..(Len(snLines[i]) - Len(snQuery)) :
        Lower(SubSeq(snLines[i], k + 1, k + Len(snQuery))) = Lower(snQuery) }

FirstMatchingLine == CHOOSE m \in MatchingLines : \A i \in MatchingLines : m <= i

\* lines a..b of the content, joined by line feeds
RECURSIVE LinesFromTo(_, _)
LinesFromTo(a, b) ==
  IF a > b THEN <<>>
  ELSE IF a = b THEN snLines[a]
  ELSE snLines[a] \o sNewline \o LinesFromTo(a + 1, b)

\* C12: when some line contains the query, with m the first such line and n
\* the number of lines, the snippet of extractSnippet(content, query,
\* contextLines) is lines max(1, m - contextLines) to min(n, m + contextLines)
\* and lineNumber is m.
C12_WindowAroundFirstMatch ==
  (snPc = "window" /\ MatchingLines # {}) =>
    LET m == FirstMatchingLine
        n == Len(snLines)
        from == IF m - snContext < 1 THEN 1 ELSE m - snContext
        to == IF m + snContext > n THEN n ELSE m + snContext
    IN /\ snOut.lineNumber = m
       /\ snOut.snippet = LinesFromTo(from, to)

\* A window cut at the top and at the bottom: a three-line content with the
\* first match on line 2 and two lines of context.
C12_Witness ==
  /\ snPc = "window"
  /\ Len(snLines) = 3
  /\ snContext = 2
  /\ MatchingLines = {2, 3}
  /\ snOut.lineNumber = 2
  /\ snOut.snippet = LinesFromTo(1, 3)

\* the lines at or above line m that match the heading or the key pattern
SectionLines(m) ==
  { i \in 1..m : MdHeading(snLines[i]) # Undefined \/ YamlKey(snLines[i]) # Undefined }

\* C13: with a match line, section is the captured text of the nearest line
\* at or above it that matches the Markdown heading or the YAML key pattern,
\* and absent when there is none; without a match the result is the first
\* three lines of the content, without section and without lineNumber.
C13_SectionAndFallback ==
  (snPc \in {"window", "line"}) =>
    IF MatchingLines = {}
    THEN /\ snOut.snippet = LinesFromTo(1, IF Len(snLines) < 3 THEN Len(snLines) ELSE 3)
         /\ snOut.section = Undefined
         /\ snOut.lineNumber = 0
    ELSE LET above == SectionLines(FirstMatchingLine)
         IN IF above = {} THEN snOut.section = Undefined
            ELSE LET nearest == CHOOSE i \in above : \A i2 \in above : i2 <= i
                 IN snOut.section =
                      (IF MdHeading(snLines[nearest]) # Undefined
                       THEN MdHeading(snLines[nearest])
                       ELSE YamlKey(snLines[nearest]))

\* The match is on line 4, below a plain line, the heading "# Top " and the
\* key "id:"; the section is the heading's text.
C13_Witness ==
  /\ snPc = "line"
  /\ snLines = <<sKeyId, sHeadTop, sPlain, sAVoice>>
  /\ snQuery = Lower(sVoice)
  /\ snOut.lineNumber = 4
  /\ snOut.section = <<"T","o","p">>

(***************************************************************************)
(* Properties of the ingestion runs.                                       *)
(***************************************************************************)
\* The rows of the batch in hand that were inserted successfully.
RowsOfBatch == InsertedRows(etlData, ColumnsOf(etlTable), etlIn.rejected, 1)

\* C14: after writeDataToParquet returns without throwing, the artifact at
\* the output path holds exactly the rows of the current batch that were
\* inserted successfully, also when the batch is empty.
C14_ArtifactIsCurrentBatch ==
  etlPc = "returned" => published[etlTable].rows = RowsOfBatch

\* C15: after a run that failed, the output directory holds the artifacts it
\* held when the run started.
C15_FailedRunPublishesNothing ==
  etlPc = "failed" => published = etlBefore

\* The positions of the batch whose INSERT succeeded, in order.
SucceededPositions ==
  SelectSeq([i \in 1..Len(etlData) |-> i], LAMBDA i : i \notin etlIn.rejected)

\* C24: the insert loop goes on after a failed INSERT: every row of the
\* batch is attempted, the table and the exported artifact hold exactly the
\* rows whose INSERT succeeded, and the reported count is their number, so
\* the failures are the batch size less the reported count.
C24_FailedInsertSkipped ==
  (etlPc \in {"export", "returned"} /\ etlData # <<>>) =>
    /\ etlReport.attempted = [i \in 1..Len(etlData) |-> i]
    /\ tables[etlTable].rows =
         [k \in 1..Len(SucceededPositions) |->
            InsertedRow(etlData[SucceededPositions[k]], ColumnsOf(etlTable))]
    /\ etlPc = "returned" => published[etlTable].rows = tables[etlTable].rows
    /\ etlReport.insertedCount = Len(SucceededPositions)
    /\ etlReport.of = Len(etlData)
    /\ Cardinality(etlIn.rejected \cap (1..Len(etlData)))
         = etlReport.of - etlReport.insertedCount

\* A batch of several rows whose first INSERT failed has been exported.
C24_Witness ==
  /\ etlPc = "returned"
  /\ Len(etlData) >= 2
  /\ etlIn.rejected = {1}
  /\ etlReport.insertedCount = Len(etlData) - 1
  /\ Len(published[etlTable].rows) = Len(etlData) - 1

\* The rows of an artifact as a multiset.
RowBag(artifact) ==
  [r \in { artifact.rows[i] : i \in 1..Len(artifact.rows) } |->
     Cardinality({ i \in 1..Len(artifact.rows) : artifact.rows[i] = r })]

\* The records of a first run on the corpus of the run in hand.
FirstRunRecords ==
  ParseFilesFrom([apiData |-> <<>>, seenSchemas |-> {}, schemaUsage |-> <<>>,
                  threw |-> FALSE], etlIn.api, 1).apiData

\* C16: a run on the inputs of the run before it ends with artifacts whose
\* rows are, as multisets, those the run before it left, and its records and
\* their usedBy lists are those of a first run.
C16_RerunSameRows ==
  (etlRepeat /\ etlPc \in {"completed", "failed"})
    => /\ \A t \in TableNames :
            /\ published[t].present = etlBefore[t].present
            /\ RowBag(published[t]) = RowBag(etlBefore[t])
       /\ etlAcc.apiData = FirstRunRecords

\* A second run over a file with an operation and a schema it uses has
\* completed, and both artifacts are there.
C16_Witness ==
  /\ etlRepeat
  /\ etlPc = "completed"
  /\ etlIn.rejected = {}
  /\ \E i \in 1..Len(published["api_spec"].rows) :
       published["api_spec"].rows[i].type = "schema"
  /\ \E n \in 1..Len(etlAcc.apiData) :
       /\ etlAcc.apiData[n].type = "schema"
       /\ Len(etlAcc.apiData[n].usedBy) = 1
  /\ published["docs_content"].rows # <<>>

\* C17: the api_spec artifact holds, for every schema record of the batch,
\* a row with every field of the record and its value.
C17_ArtifactKeepsRecordFields ==
  (etlPc = "returned" /\ etlTable = "api_spec" /\ etlIn.rejected = {}
   /\ published["api_spec"].present /\ etlData # <<>>)
    => \A i \in 1..Len(etlData) :
         etlData[i].type = "schema"
           => /\ i <= Len(published["api_spec"].rows)
              /\ \A field \in DOMAIN etlData[i] :
                   /\ field \in DOMAIN published["api_spec"].rows[i]
                   /\ published["api_spec"].rows[i][field] = etlData[i][field]

(***************************************************************************)
(* Properties of handleListRepositoryPath.                                 *)
(***************************************************************************)
\* How many directory levels the entry lies below the path; 0 for the path
\* itself and for an entry that is not below it.
RECURSIVE LevelBelow(_, _)
LevelBelow(n, path) ==
  IF n = path \/ n = RepoRoot THEN 0
  ELSE LET up == LevelBelow(lsTree[n].parent, path)
       IN IF lsTree[n].parent = path THEN 1
          ELSE IF up = 0 THEN 0 ELSE up + 1

\* C21: the listing of a directory with depth d holds entries of at most d
\* levels below it, and with depth 1 exactly its direct entries.
C21_AtMostDepthLevels ==
  (lsOut.status = "ok" /\ IsDir(lsTree, lsArgs.path)) =>
    /\ \A i \in 1..Len(lsOut.contents) :
         /\ LevelBelow(lsOut.contents[i], lsArgs.path) >= 1
         /\ LevelBelow(lsOut.contents[i], lsArgs.path) <= DepthOf(lsArgs)
    /\ DepthOf(lsArgs) = 1 => lsOut.contents = Children(lsTree, lsArgs.path)

(***************************************************************************)
(* Properties of handleGetApiFile.                                         *)
(***************************************************************************)
\* The file the call's filename resolves to is an openapi.json.
ResolvesToOpenapiJson ==
  /\ Truthy(afArgs.filename)
  /\ AllowedMatch(afArgs.filename) # <<>>
  /\ EndsWith(AllowedMatch(afArgs.filename), <<"/">> \o sOpenapiJson)

\* C25: only allow-listed paths are fetched, and a request that resolves to
\* an openapi.json never gets the whole file: it fails without a filter and
\* gets at most 2*context+1 lines around the first matching line with one.
C25_OpenapiNeverWhole ==
  afOut.status # "none" =>
    /\ \A p \in afFetched : \E i \in 1..Len(allowedFiles) : allowedFiles[i] = p
    /\ ResolvesToOpenapiJson =>
         /\ afOut.kind # "content"
         /\ ~Truthy(afArgs.filter) => afOut.status = "error"
         /\ afOut.kind = "snippet" =>
              /\ Len(afOut.lines) <= 2 * afOut.context + 1
              /\ afOut.lines =
                   SnippetLines(SplitLines(afRepo.content), afOut.lineNumber - 1,
                                afOut.context)
              /\ Includes(Lower(SplitLines(afRepo.content)[afOut.lineNumber]),
                          Lower(afArgs.filter))

(***************************************************************************)
(* Properties of DuckDBService.                                            *)
(***************************************************************************)
\* The call has passed ensureInitialized.
PastEnsure(c) == svCalls[c].pc \in {"ensured", "running", "resolved"}

\* C27: a query call issues its SQL only after initializeDatabase has
\* returned; once the initialization has failed no query call passes
\* ensureInitialized, none issues SQL, and the initialization is not started
\* again.
C27_NoSqlBeforeInitialized ==
  /\ \A r \in svIssued : r.init = "resolved"
  /\ \A c \in DOMAIN svCalls : PastEnsure(c) => svInit = "resolved"
  /\ svInit = "rejected" => svIssued = {}
  /\ svInitRuns <= 1

\* The initialization failed on a missing artifact, with the connection
\* open, and a query call made since was rejected.
C27_Witness ==
  /\ svInit = "rejected"
  /\ svFiles.docs = "missing"
  /\ svConnection = "open"
  /\ \E c \in DOMAIN svCalls : svCalls[c].pc = "rejected"
  /\ svIssued = {}

\* C28: once close() has returned the service holds no connection, and no
\* query call made after it gets past ensureInitialized.
C28_ClosedHoldsNoConnection ==
  svClosed =>
    /\ svConnection = "null"
    /\ \A c \in DOMAIN svCalls : svCalls[c].afterClose => ~PastEnsure(c)
    /\ \A r \in svIssued : ~r.closed

(***************************************************************************)
(* Properties of safeStringify.                                            *)
(***************************************************************************)
\* The objects reachable from the argument.
RECURSIVE ReachableFrom(_)
ReachableFrom(found) ==
  LET more == found \cup ({ sfGraph[o][k] : o \in found,
                                              k \in 1..PropertiesPerObject }
                            \ {Primitive})
  IN IF more = found THEN found ELSE ReachableFrom(more)

Reachable == ReachableFrom({1})

\* The places of the graph that hold an object: the argument itself and
\* the object-valued properties of the reachable objects.
Occurrences ==
  1 + Cardinality({ <<o, k>> \in Reachable \X (1..PropertiesPerObject) :
                      sfGraph[o][k] # Primitive })

CountOf(token) == Cardinality({ i \in 1..Len(sfOut) : sfOut[i] = token })

\* No object is traversed twice, and the text of a finished call has one
\* object per reachable object and the marker at every other occurrence.
VisitedOnce ==
  /\ \A o \in Objects : sfTraversed[o] <= 1
  /\ sfPc = "returned" =>
       /\ \A o \in Objects : sfTraversed[o] = IF o \in Reachable THEN 1 ELSE 0
       /\ CountOf("{") = Cardinality(Reachable)
       /\ CountOf("[Circular]") = Occurrences - Cardinality(Reachable)

\* C20: safeStringify returns on every object graph, cyclic ones included,
\* and traverses each object at most once: every later occurrence of an
\* object is written as "[Circular]".
C20_TerminatesVisitingOnce ==
  /\ [](sfPc \in {"call", "running", "returned"} => VisitedOnce)
  /\ <>(sfPc = "returned")

\* A finished call on a graph with a cycle through two objects and a second
\* reference to one of them.
C20_Witness ==
  /\ sfPc = "returned"
  /\ sfGraph[1][1] = 2 /\ sfGraph[2][1] = 1
  /\ sfGraph[1][2] = 2
  /\ CountOf("[Circular]") >= 2
  /\ CountOf("{") = 2

(***************************************************************************)
(* Properties of handleGetDoc.                                             *)
(***************************************************************************)
\* The stored rows whose filePath is the path of the call.
StoredUnderPath == { i \in 1..Len(docStore) : docStore[i].filePath = docArgs.path }

RECURSIVE BlockNodes(_, _)
BlockNodes(nodes, i) ==
  IF i > Len(nodes) THEN <<>>
  ELSE (IF nodes[i].type \in contentNodeTypes /\ Trim(nodes[i].text) # <<>>
        THEN <<i>> ELSE <<>>) \o BlockNodes(nodes, i + 1)

\* The text of the last heading of the level before node k, null when there
\* is none or when a heading of a higher level came after it.
HeadingInForce(nodes, k, level) ==
  LET above == { j \in 1..(k - 1) :
                   nodes[j].type = "heading" /\ nodes[j].depth \in 1..level }
  IN IF above = {} THEN NULL
     ELSE LET last == CHOOSE j \in above : \A j2 \in above : j2 <= j
          IN IF nodes[last].depth = level THEN Trim(nodes[last].text) ELSE NULL

RowsOfFile(rows, filePath) == SelectSeq(rows, LAMBDA r : r.filePath = filePath)

\* C11: every content block carries as heading1, heading2 and heading3 the
\* text of the most recent heading of that level before it in its file that
\* has not been reset since: a level-1 heading resets levels 2 and 3, a
\* level-2 heading resets level 3, and nothing carries over between files.
C11_HeadingsInForce ==
  \A f \in 1..(mdIdx - 1) :
    LET file == mdCorpus[f]
        rows == RowsOfFile(markdownData, file.filePath)
        blocks == IF file.unreadable THEN <<>> ELSE BlockNodes(file.nodes, 1)
    IN /\ Len(rows) = Len(blocks)
       /\ \A n \in 1..Len(rows) :
            /\ rows[n].heading1 = HeadingInForce(file.nodes, blocks[n], 1)
            /\ rows[n].heading2 = HeadingInForce(file.nodes, blocks[n], 2)
            /\ rows[n].heading3 = HeadingInForce(file.nodes, blocks[n], 3)

\* A run has returned the code block under "# Over", "## Set" and a paragraph
\* whose level 3 was reset by a later level-2 heading, after another file.
C11_Witness ==
  /\ mdPc = "returned"
  /\ Len(mdCorpus) = 2 /\ mdCorpus[2].filePath = 1
  /\ \E n \in 1..Len(markdownData) :
       /\ markdownData[n].contentType = "code"
       /\ markdownData[n].heading1 = sOverview
       /\ markdownData[n].heading2 = Trim(sSetup)
       /\ markdownData[n].heading3 = NULL
  /\ \E n \in 1..Len(markdownData) :
       /\ markdownData[n].filePath = 1
       /\ markdownData[n].heading2 = sNext
       /\ markdownData[n].heading3 = NULL
       /\ \E m \in 1..(n - 1) : markdownData[m].heading3 = sDeep

(***************************************************************************)
(* Properties of parseOpenApiFiles.                                        *)
(***************************************************************************)
EntryRefs ==
  UNION { UNION { { <<f, p, e>> : e \in 1..Len(corpus[f].paths[p].entries) } :
                  p \in 1..Len(corpus[f].paths) } :
          f \in 1..Len(corpus) }

EntryAt(r) == corpus[r[1]].paths[r[2]].entries[r[3]]

\* The entry is reached by the loops: its file is well-formed and no entry
\* of the file up to it is null.
Visited(r) ==
  /\ ~corpus[r[1]].malformed
  /\ \A r2 \in EntryRefs :
       (r2[1] = r[1] /\ (r2[2] < r[2] \/ (r2[2] = r[2] /\ r2[3] <= r[3]))) =>
         EntryAt(r2).value.kind # "null"

SchemasOf(operation) ==
  LET all == operation.requestBody \o operation.responses \o operation.parameters
  IN { all[i] : i \in 1..Len(all) }

\* The operations of the corpus that reference a schema named name.
OperationsReferencing(name) ==
  { r \in EntryRefs :
      /\ Visited(r)
      /\ EntryAt(r).value.kind = "operation"
      /\ \E sc \in SchemasOf(EntryAt(r).value) : sc.title = name }

ReferencedNames ==
  { sc.title : sc \in { x \in UNION { SchemasOf(EntryAt(r).value) :
                                       r \in { v \in EntryRefs : Visited(v) } } :
                        Truthy(x.title) } }

SchemaRecordsNamed(name) ==
  { n \in 1..Len(apiData) : apiData[n].type = "schema" /\ apiData[n].summary = name }

\* C9: for a schema name referenced from N distinct operations the output
\* holds exactly one schema record of that name, and its usedBy has
\* exactly N entries.
C9_OneRecordUsedByPerOperation ==
  parsePc = "returned" =>
    \A name \in ReferencedNames :
      /\ Cardinality(SchemaRecordsNamed(name)) = 1
      /\ \A n \in SchemaRecordsNamed(name) :
           Len(apiData[n].usedBy) = Cardinality(OperationsReferencing(name))

HttpMethods ==
  { sGet, sPost, <<"p","u","t">>, <<"d","e","l","e","t","e">>,
    <<"p","a","t","c","h">>, <<"h","e","a","d">>,
    <<"o","p","t","i","o","n","s">>, <<"t","r","a","c","e">> }

ApiRecordsOf(f, apiPath, method) ==
  { n \in 1..Len(apiData) :
      /\ apiData[n].type = "api"
      /\ apiData[n].filePath = corpus[f].filePath
      /\ apiData[n].apiPath = apiPath
      /\ apiData[n].method = method }

\* C10: for a specification file the output holds exactly one api record
\* per (path, HTTP method) pair of its paths object and no api record for
\* any other key of a path item.
C10_OneApiRecordPerOperation ==
  parsePc = "returned" =>
    \A f \in 1..Len(corpus) :
      (~corpus[f].malformed /\ \A r \in EntryRefs : r[1] = f => Visited(r)) =>
        /\ \A r \in EntryRefs :
             (r[1] = f /\ EntryAt(r).key \in HttpMethods) =>
               Cardinality(ApiRecordsOf(f, corpus[f].paths[r[2]].apiPath,
                                        Upper(EntryAt(r).key))) = 1
        /\ \A n \in 1..Len(apiData) :
             (apiData[n].type = "api" /\ apiData[n].filePath = corpus[f].filePath) =>
               \E m \in HttpMethods : apiData[n].method = Upper(m)

\* The processing of the file fails: dereference rejects it, or a member of
\* one of its path items is null.
FailsInProcessing(file) ==
  \/ file.malformed
  \/ \E p \in 1..Len(file.paths) : \E e \in 1..Len(file.paths[p].entries) :
       file.paths[p].entries[e].value.kind = "null"

\* C19: a specification file whose processing fails contributes no record
\* to the output, and every member of a path item of every other file has
\* its record.
C19_FailedFileSkippedWhole ==
  parsePc = "returned" =>
    \A f \in 1..Len(corpus) :
      IF FailsInProcessing(corpus[f])
      THEN \A n \in 1..Len(apiData) : apiData[n].filePath # corpus[f].filePath
      ELSE \A r \in EntryRefs :
             r[1] = f =>
               ApiRecordsOf(f, corpus[f].paths[r[2]].apiPath,
                            Upper(EntryAt(r).key)) # {}

\* The members of the path items of a file, in the order the loops reach
\* them, each with its path.
RECURSIVE FlatEntries(_, _)
FlatEntries(file, p) ==
  IF p > Len(file.paths) THEN <<>>
  ELSE [e \in 1..Len(file.paths[p].entries) |->
          [apiPath |-> file.paths[p].apiPath, entry |-> file.paths[p].entries[e]]]
       \o FlatEntries(file, p + 1)

\* The members reached before the processing of the file fails.
RECURSIVE UpToNull(_, _)
UpToNull(members, i) ==
  IF i > Len(members) \/ members[i].entry.value.kind = "null" THEN <<>>
  ELSE <<members[i]>> \o UpToNull(members, i + 1)

\* The sightings of schemas in one operation, each with its dedup key.
OperationSightings(member) ==
  LET operation == member.entry.value
      all == operation.requestBody \o operation.responses \o operation.parameters
  IN [i \in 1..Len(all) |->
        [key |-> SchemaKey(all[i], all[i].title),
         usedBy |-> [apiPath |-> member.apiPath,
                     method |-> Upper(member.entry.key),
                     operationId |-> OrElse(operation.operationId, NULL)]]]

RECURSIVE SightingsOfMembers(_, _)
SightingsOfMembers(members, i) ==
  IF i > Len(members) THEN <<>>
  ELSE OperationSightings(members[i]) \o SightingsOfMembers(members, i + 1)

\* The sightings of one file: those of its operations, then, when no member
\* was null, its components, which come without usage.
FileSightings(file) ==
  IF file.malformed THEN <<>>
  ELSE SightingsOfMembers(UpToNull(FlatEntries(file, 1), 1), 1)
       \o (IF FailsInProcessing(file) THEN <<>>
           ELSE [c \in 1..Len(file.schemas) |->
                   [key |-> SchemaKey(file.schemas[c].schema, file.schemas[c].name),
                    usedBy |-> NoUsedBy]])

RECURSIVE CorpusSightings(_)
CorpusSightings(f) ==
  IF f > Len(corpus) THEN <<>> ELSE FileSightings(corpus[f]) \o CorpusSightings(f + 1)

\* The keys in the order of their first sighting: the dedup key of the n-th
\* schema record is the n-th of them.
RECURSIVE FirstSighted(_, _, _)
FirstSighted(sightings, i, keys) ==
  IF i > Len(sightings) THEN keys
  ELSE FirstSighted(sightings, i + 1,
         IF \E k \in 1..Len(keys) : keys[k] = sightings[i].key THEN keys
         ELSE Append(keys, sightings[i].key))

\* Every usage sighted for the key over the whole corpus, in sighting order.
RECURSIVE UsageOfKey(_, _, _)
UsageOfKey(sightings, key, i) ==
  IF i > Len(sightings) THEN <<>>
  ELSE (IF sightings[i].key = key /\ sightings[i].usedBy # NoUsedBy
        THEN <<sightings[i].usedBy>> ELSE <<>>)
       \o UsageOfKey(sightings, key, i + 1)

SchemaRecords == SelectSeq(apiData, LAMBDA r : r.type = "schema")

IsPrefix(a, b) == Len(a) <= Len(b) /\ SubSeq(b, 1, Len(a)) = a

\* C22: when parseOpenApiFiles returns, the usedBy of the n-th schema
\* record is the whole usage list of the n-th dedup key.
C22_UsedByIsWholeUsage ==
  parsePc = "returned" =>
    LET sightings == CorpusSightings(1)
        keys == FirstSighted(sightings, 1, <<>>)
    IN /\ Len(SchemaRecords) = Len(keys)
       /\ \A n \in 1..Len(keys) :
            SchemaRecords[n].usedBy = UsageOfKey(sightings, keys[n], 1)

\* During the run a usage list only grows at its end (not part of the
\* statement of C22 that fails).
UsageOnlyAppended ==
  [][\A key \in DOMAIN schemaUsage :
       /\ key \in DOMAIN schemaUsage'
       /\ IsPrefix(schemaUsage[key], schemaUsage'[key])]_vars

\* C23: a schema declared under components.schemas of a file that is
\* processed to its end has exactly one schema record in the output.
C23_OneRecordPerComponent ==
  parsePc = "returned" =>
    \A f \in 1..Len(corpus) :
      ~FailsInProcessing(corpus[f]) =>
        \A c \in 1..Len(corpus[f].schemas) :
          Cardinality({ n \in 1..Len(apiData) :
                          /\ apiData[n].type = "schema"
                          /\ apiData[n].schemaDefinition =
                               safeStringify(corpus[f].schemas[c].schema) }) = 1

(***************************************************************************)
(* Properties of handleSearchDocs.                                         *)
(***************************************************************************)
Words == SplitWords(args.query)
Returned == { [src |-> resp.results[i].src, idx |-> resp.results[i].idx] :
                i \in 1..Len(resp.results) }
TestedFields(src) == IF src = "api" THEN apiFields ELSE mdFields

\* word occurs in text, letter case ignored
ContainsCI(text, word) ==
  /\ text # NULL
  /\ \E k \in 0..(Len(text) - Len(word)) :
       SubSeq(Lower(text), k + 1, k + Len(word)) = Lower(word)

\* a word hits a field: substring, or edit distance within the threshold
Hits(text, word) ==
  /\ text # NULL
  /\ (ContainsCI(text, word) \/ Levenshtein(Lower(text), Lower(word)) <= FuzzyThreshold)

EveryWordHits(ref) ==
  LET row == RowOf(ref, apiSpec, docsContent)
      fields == TestedFields(ref.src)
  IN \A w \in 1..Len(Words) :
       \E f \in 1..Len(fields) : Hits(row[fields[f]], Words[w])

\* C1: in the multi-word tier a record is returned only if every query word
\* hits at least one tested field of its family; a record for which some
\* word hits no tested field is never returned.
C1_EveryWordHits ==
  (resp.status = "ok" /\ resp.tier = "multi") =>
    \A ref \in Returned : EveryWordHits(ref)

\* The first word occurs in one tested field of the api row, the second in a
\* different tested field of the same row.
WordsInDifferentFields(row) ==
  /\ Len(Words) = 2
  /\ \E f1, f2 \in 1..Len(apiFields) :
       /\ f1 # f2
       /\ ContainsCI(row[apiFields[f1]], Words[1])
       /\ ContainsCI(row[apiFields[f2]], Words[2])

\* C2: for a two-word query, a record with the first word in one tested
\* field and the second in a different tested field satisfies the match
\* condition of the multi-word tier, and is returned whenever the number of
\* matching records does not exceed the limit.
C2_WordsInDifferentFieldsMatch ==
  (resp.status = "ok" /\ resp.tier = "multi") =>
    \A k \in 1..Len(apiSpec) :
      WordsInDifferentFields(apiSpec[k]) =>
        LET ref == [src |-> "api", idx |-> k]
            matches == MultiMatches(apiSpec, docsContent, Words)
        IN /\ ref \in matches
           /\ (Cardinality(matches) <= EffectiveLimit(args) => ref \in Returned)

\* A returned api row that holds the two words of the query in different
\* fields and in no single field.
C2_Witness ==
  /\ resp.status = "ok" /\ resp.tier = "multi"
  /\ \E ref \in Returned :
       /\ ref.src = "api"
       /\ WordsInDifferentFields(apiSpec[ref.idx])
       /\ \A f \in 1..Len(apiFields) :
            ~(ContainsCI(apiSpec[ref.idx][apiFields[f]], Words[1])
              /\ ContainsCI(apiSpec[ref.idx][apiFields[f]], Words[2]))

\* C3: for an identifier-shaped query and a limit of at least 1, a schema
\* record whose name equals the query is among the results of the
\* exact-identifier tier.
C3_ExactNameReturned ==
  (resp.status = "ok" /\ resp.tier = "exact" /\ EffectiveLimit(args) >= 1) =>
    \A k \in 1..Len(apiSpec) :
      (apiSpec[k].type = "schema" /\ apiSpec[k].summary = args.query) =>
        [src |-> "api", idx |-> k] \in Returned

\* C4: when the exact-identifier tier finds no record for the query, the
\* multi-word tier is evaluated and its matches are returned.
C4_FallsThroughToMultiWord ==
  (/\ resp.status = "ok"
   /\ IsExactSchemaQuery(args.query)
   /\ ExactMatches(apiSpec, args.query) = {}) =>
    \E out \in MultiScan(apiSpec, docsContent, Words, EffectiveLimit(args)) :
      /\ Len(out) = Len(resp.results)
      /\ \A i \in 1..Len(out) :
           out[i] = [src |-> resp.results[i].src, idx |-> resp.results[i].idx]

\* C5: a call with an empty or missing query fails with the missing-query
\* error; no statement is issued to the store and no result is returned.
C5_MissingQueryFailsBeforeScan ==
  (resp.status # "none" /\ (args.query = Undefined \/ args.query = <<>>)) =>
    /\ resp.status = "error"
    /\ resp.error = MissingQueryError
    /\ resp.issued = <<>>
    /\ resp.results = <<>>

C5_Witness ==
  /\ args.query = <<>>
  /\ resp.status = "error"
  /\ resp.error = MissingQueryError
  /\ resp.issued = <<>>
  /\ Len(apiSpec) > 0

\* C6: in both tiers the results are ordered by file path, and records of
\* the same file path appear in ingestion order.
C6_OrderedByPathThenIngestion ==
  resp.status = "ok" =>
    \A i, j \in 1..Len(resp.results) :
      i < j =>
        \/ resp.results[i].path < resp.results[j].path
        \/ /\ resp.results[i].path = resp.results[j].path
           /\ resp.results[i].idx < resp.results[j].idx

\* C7: a call returns at most limit results (10 when no limit is given), in
\* the exact-identifier tier and in the multi-word tier.
C7_AtMostLimitResults ==
  resp.status = "ok" => Len(resp.results) <= EffectiveLimit(args)

\* The union of both families holds more matches than the limit admits.
C7_Witness ==
  /\ resp.status = "ok" /\ resp.tier = "multi"
  /\ EffectiveLimit(args) >= 1
  /\ Len(resp.results) = EffectiveLimit(args)
  /\ LET matches == MultiMatches(apiSpec, docsContent, Words)
     IN /\ Cardinality(matches) > EffectiveLimit(args)
        /\ \E r1, r2 \in matches : r1.src = "api" /\ r2.src = "markdown"

\* C8: a result carries schemaDefinition exactly when the caller asked for
\* it and the record has one, and fullContent exactly when the caller asked
\* for it and the record is a document record.
C8_AttachedOnRequestOnly ==
  resp.status = "ok" =>
    \A i \in 1..Len(resp.results) :
      LET res == resp.results[i]
          row == RowOf(res, apiSpec, docsContent)
      IN /\ (res.schemaDefinition # Undefined) <=>
              (/\ args.includeSchemaDefinition
               /\ res.src = "api"
               /\ Truthy(row.schemaDefinition))
         /\ (res.fullContent # Undefined) <=>
              (args.includeFullContent /\ res.src = "markdown")

\* C26: a query that passes the missing-query check and is not
\* identifier-shaped has at least one word, so the multi-word statement has
\* a match condition; a query of whitespace only fails with the
\* missing-query error and not with an error of the store.
C26_QueryHasAWord ==
  (/\ resp.status # "none"
   /\ args.query # Undefined
   /\ args.query # <<>>
   /\ ~IsExactSchemaQuery(args.query)) =>
    /\ Words # <<>>
    /\ resp.error # QueryExecutionError
    /\ (\A i \in 1..Len(args.query) : IsSpace(args.query[i])) =>
         (resp.status = "error" /\ resp.error = MissingQueryError)

\* The query is a capital letter followed by one or more letters, digits or
\* underscores.
IdentifierShaped(q) ==
  /\ q # Undefined
  /\ Len(q) >= 2
  /\ q[1] \in UpperSet
  /\ \A i \in 2..Len(q) : q[i] \in UpperSet \cup LowerSet \cup Digits \cup {"_"}

\* C29: an identifier-shaped query is answered from the api artifact alone:
\* the only statement issued is the one of the exact-identifier tier and no
\* result is a Markdown record.
C29_IdentifierScansApiOnly ==
  (resp.status # "none" /\ IdentifierShaped(args.query)) =>
    /\ resp.issued = <<"exact">>
    /\ \A i \in 1..Len(resp.results) : resp.results[i].src = "api"

\* An identifier that a content block holds and no api record matches was
\* answered with no result.
C29_Witness ==
  /\ resp.status = "ok"
  /\ args.query = sVoice
  /\ \E k \in 1..Len(docsContent) : ContainsCI(docsContent[k].content, sVoice)
  /\ Len(apiSpec) > 0
  /\ ExactMatches(apiSpec, sVoice) = {}
  /\ resp.results = <<>>

\* The records of both families with a tested field that is the empty
\* string.
HasEmptyField(row, fields) == \E f \in 1..Len(fields) : row[fields[f]] = <<>>

EmptyFieldRecords ==
  { [src |-> "api", idx |-> k] :
      k \in { n \in 1..Len(apiSpec) : HasEmptyField(apiSpec[n], apiFields) } }
  \cup
  { [src |-> "markdown", idx |-> k] :
      k \in { n \in 1..Len(docsContent) : HasEmptyField(docsContent[n], mdFields) } }

\* C30: in the multi-word tier a query with a word no longer than the fuzzy
\* threshold matches every record with a tested field that is the empty
\* string (the content of a schema without description), and returns them
\* all when the matches do not exceed the limit.
C30_ShortWordHitsEmptyContent ==
  (/\ resp.status = "ok" /\ resp.tier = "multi"
   /\ \E w \in 1..Len(Words) : Len(Words[w]) <= FuzzyThreshold) =>
    LET matches == MultiMatches(apiSpec, docsContent, Words)
    IN /\ EmptyFieldRecords \subseteq matches
       /\ Cardinality(matches) <= EffectiveLimit(args) =>
            EmptyFieldRecords \subseteq Returned

\* A record with empty content, none of whose fields holds a word of the
\* query, was returned for a query with a two-letter word.
C30_Witness ==
  /\ resp.status = "ok" /\ resp.tier = "multi"
  /\ args.query = qOfSets
  /\ \E ref \in Returned \cap EmptyFieldRecords :
       LET row == RowOf(ref, apiSpec, docsContent)
           fields == TestedFields(ref.src)
       IN \A f \in 1..Len(fields), w \in 1..Len(Words) :
            ~ContainsCI(row[fields[f]], Words[w])

Spec == Init /\ [][Next]_vars
=============================================================================
